---- MODULE Spec2Model ----
(***************************************************************************)
(* Scholarship document verification: the service                          *)
(* backend/app/services/scholarship_verification.py and the endpoint       *)
(* verify_scholarship_request that drives it.                              *)
(*                                                                         *)
(* Numbers.  Python floats are modelled by exact fixed-point integers: the *)
(* real number 1.0 is the integer Scale, and every confidence c is the     *)
(* integer c * Scale.  Scale is chosen so that every product and quotient  *)
(* the code forms on the inputs enumerated here is an integer (see         *)
(* ExactArithmetic); IEEE rounding of the last bit is not represented.     *)
(***************************************************************************)
EXTENDS Integers, Sequences, FiniteSets, TLC

VARIABLES
    args,       \* the inputs of the call or run in progress
    clock,      \* the system clock that datetime.now() reads
    extracted,  \* extracted_data of the document being verified
    results,    \* all_verification_results: check name -> result dict
    decision,   \* the dict auto_decision returned, or NoDecision
    previous,   \* the decision of the preceding run on the same inputs
    document_analyses,  \* the per-document list verify_scholarship_request builds
    request_status,     \* ServiceRequest.status of the request being verified
    response,   \* the HTTP response of the handler that ran last
    applications_db,      \* the standalone module's store: id -> application
    application_counter,  \* the standalone module's next application id
    service_request,      \* the simple endpoint's ServiceRequest row
    documents,            \* the simple endpoint's Document rows
    pc          \* position of the run

vars == <<args, clock, extracted, results, decision, previous,
          document_analyses, request_status, response,
          applications_db, application_counter, service_request, documents, pc>>

\* the standalone module's part of the state
standalone == <<applications_db, application_counter>>

\* the simple endpoint's part of the state
simple == <<service_request, documents>>

\* the endpoints' part of the state
endpoint == <<document_analyses, request_status, response, standalone, simple>>

(***************************************************************************)
(* Python values                                                           *)
(***************************************************************************)
Scale == 840 * 1000

\* p percent as a fixed-point number (0.25 is Pct(25))
Pct(p) == (p * Scale) \div 100

\* c * 0.ww for a weight written in percent
Times(c, w) == (c * w) \div 100

\* the Python value None where a dict is expected
None == [py |-> "None"]

\* the Python value None where a str is expected
NoneStr == <<"<None>">>

\* a dict that has not been produced yet
NotRun == [notrun |-> TRUE]

NoArgs == [noargs |-> TRUE]

IsNone(v) == "py" \in DOMAIN v

\* dict.get(key, default)
Get(d, key, default) == IF key \in DOMAIN d THEN d[key] ELSE default

CheckNames == {"identity", "authenticity", "validity", "completeness", "fraud"}

(***************************************************************************)
(* Strings: a str is a sequence of one-character strings                   *)
(***************************************************************************)
UpperCase ==
    <<"A", "B", "C", "D", "E", "F", "G", "H", "I", "J", "K", "L", "M",
      "N", "O", "P", "Q", "R", "S", "T", "U", "V", "W", "X", "Y", "Z">>

LowerCase ==
    <<"a", "b", "c", "d", "e", "f", "g", "h", "i", "j", "k", "l", "m",
      "n", "o", "p", "q", "r", "s", "t", "u", "v", "w", "x", "y", "z">>

LowerChar(c) ==
    IF \E n \in DOMAIN UpperCase : UpperCase[n] = c
    THEN LowerCase[CHOOSE n \in DOMAIN UpperCase : UpperCase[n] = c]
    ELSE c

\* str.lower()
lower(s) == [n \in DOMAIN s |-> LowerChar(s[n])]

RECURSIVE lstrip(_)
lstrip(s) == IF s # << >> /\ Head(s) = " " THEN lstrip(Tail(s)) ELSE s

RECURSIVE rstrip(_)
rstrip(s) ==
    IF s # << >> /\ s[Len(s)] = " " THEN rstrip(SubSeq(s, 1, Len(s) - 1)) ELSE s

\* str.strip()
strip(s) == rstrip(lstrip(s))

\* a in b, for strings
IsSubstring(a, b) ==
    \E i \in 0..(Len(b) - Len(a)) : SubSeq(b, i + 1, i + Len(a)) = a

Max(a, b) == IF a >= b THEN a ELSE b
Min(a, b) == IF a <= b THEN a ELSE b

\* a variant: the matches are divided by the shorter length
_calculate_string_similarity_min_len(str1, str2) ==
    IF str1 = str2 THEN Scale
    ELSE IF Len(str1) = 0 \/ Len(str2) = 0 THEN 0
    ELSE LET matches ==
               Cardinality({n \in 1..Min(Len(str1), Len(str2)) : str1[n] = str2[n]})
         IN  (matches * Scale) \div Min(Len(str1), Len(str2))

\* position-wise matching characters over the longer length
_calculate_string_similarity(str1, str2) ==
    IF str1 = str2 THEN Scale
    ELSE IF Len(str1) = 0 \/ Len(str2) = 0 THEN 0
    ELSE LET matches ==
               Cardinality({n \in 1..Min(Len(str1), Len(str2)) : str1[n] = str2[n]})
         IN  (matches * Scale) \div Max(Len(str1), Len(str2))

(***************************************************************************)
(* verify_identity                                                         *)
(***************************************************************************)
EmptyDict == << >>

NameMatchThreshold == 80
IdentityVerified == 80
IdentityReview == 50
DepartmentMatchConfidence == 90

\* the fields in the order the code compares them
IdentityFields == <<"name", "student_id", "department">>

\* the key of user_data a structured field is compared with
UserKey(f) == IF f = "name" THEN "full_name" ELSE f

\* 'f' in structured and key in user_data
identity_comparable(f, structured, user_data) ==
    f \in DOMAIN structured /\ UserKey(f) \in DOMAIN user_data

\* .lower() on a user_data value that is None raises AttributeError
identity_field_raises(f, structured, user_data) ==
    /\ identity_comparable(f, structured, user_data)
    /\ user_data[UserKey(f)] = NoneStr

\* the test that files a compared field under matches
identity_field_matches(f, doc, db) ==
    CASE f = "name" ->
            _calculate_string_similarity(strip(lower(doc)), strip(lower(db)))
                > Pct(NameMatchThreshold)
      [] f = "student_id" -> lower(doc) = lower(db)
      [] f = "department" ->
            IsSubstring(lower(doc), lower(db)) \/ IsSubstring(lower(db), lower(doc))

\* the 'confidence' entry recorded with a match or mismatch
identity_field_confidence(f, doc, db) ==
    CASE f = "name" ->
            _calculate_string_similarity(strip(lower(doc)), strip(lower(db)))
      [] f = "student_id" ->
            IF identity_field_matches(f, doc, db) THEN Scale ELSE 0
      [] f = "department" ->
            IF identity_field_matches(f, doc, db)
            THEN Pct(DepartmentMatchConfidence) ELSE 0

\* the issue string a mismatch appends (none for department)
identity_issue(f, doc, db) ==
    CASE f = "name" -> << <<"Name mismatch", doc, db>> >>
      [] f = "student_id" -> << <<"Student ID mismatch", doc, db>> >>
      [] OTHER -> << >>

\* a plausible slip: integer division of the two counts
identity_confidence_floor(nMatches, nMismatches) ==
    IF nMatches + nMismatches > 0
    THEN (nMatches \div (nMatches + nMismatches)) * Scale
    ELSE 0

\* len(matches) / total_checks, 0.0 when nothing was compared
identity_confidence(nMatches, nMismatches) ==
    IF nMatches + nMismatches > 0
    THEN (nMatches * Scale) \div (nMatches + nMismatches)
    ELSE 0

identity_status(confidence) ==
    IF confidence >= Pct(IdentityVerified) THEN "verified"
    ELSE IF confidence >= Pct(IdentityReview) THEN "review_required"
    ELSE "failed"

verify_identity(extracted_data, user_data) ==
    LET structured == Get(extracted_data, "structured_data", EmptyDict)
        raising    == {n \in 1..3 :
                         identity_field_raises(IdentityFields[n], structured, user_data)}
        raised     == raising # {}
        \* the fields compared before the first one that raises
        stop       == IF raised THEN CHOOSE n \in raising : \A m \in raising : n <= m
                      ELSE 4
        compared   == {IdentityFields[n] : n \in
                         {m \in 1..(stop - 1) :
                            identity_comparable(IdentityFields[m], structured, user_data)}}
        Detail(f)  == [field |-> f,
                       document |-> structured[f],
                       database |-> user_data[UserKey(f)],
                       confidence |-> identity_field_confidence(
                                          f, structured[f], user_data[UserKey(f)])]
        IsMatch(f) == identity_field_matches(f, structured[f], user_data[UserKey(f)])
        matches    == {Detail(f) : f \in {g \in compared : IsMatch(g)}}
        mismatches == {Detail(f) : f \in {g \in compared : ~IsMatch(g)}}
        IssueOf(n) == IF IdentityFields[n] \in compared /\ ~IsMatch(IdentityFields[n])
                      THEN identity_issue(IdentityFields[n],
                                          structured[IdentityFields[n]],
                                          user_data[UserKey(IdentityFields[n])])
                      ELSE << >>
        issues     == IssueOf(1) \o IssueOf(2) \o IssueOf(3)
        conf       == identity_confidence(Cardinality(matches), Cardinality(mismatches))
    IN  IF raised
        THEN [status |-> "error", confidence |-> 0,
              matches |-> matches, mismatches |-> mismatches,
              issues |-> issues \o << <<"Verification error">> >>]
        ELSE [status |-> identity_status(conf), confidence |-> conf,
              matches |-> matches, mismatches |-> mismatches,
              issues |-> issues]

(***************************************************************************)
(* Numbers and dates written in a document                                 *)
(***************************************************************************)
Digits == {"0", "1", "2", "3", "4", "5", "6", "7", "8", "9"}

DigitValue(c) ==
    CASE c = "0" -> 0 [] c = "1" -> 1 [] c = "2" -> 2 [] c = "3" -> 3
      [] c = "4" -> 4 [] c = "5" -> 5 [] c = "6" -> 6 [] c = "7" -> 7
      [] c = "8" -> 8 [] c = "9" -> 9

RECURSIVE DigitsValue(_)
DigitsValue(s) ==
    IF s = << >> THEN 0
    ELSE 10 * DigitsValue(SubSeq(s, 1, Len(s) - 1)) + DigitValue(s[Len(s)])

\* one of 1.0 in the unit of parsed numbers (two decimal places)
Hundredths == 10 * 10

\* float(s) for the decimal strings the field patterns can capture: digits
\* with at most one point and at most two decimals; anything else raises
float(s) ==
    LET points == {n \in DOMAIN s : s[n] = "."}
        p      == IF points = {} THEN Len(s) + 1 ELSE CHOOSE n \in points : TRUE
        whole  == SubSeq(s, 1, p - 1)
        frac   == SubSeq(s, p + 1, Len(s))
        ok     == /\ Cardinality(points) <= 1
                  /\ \A n \in DOMAIN s : s[n] \in Digits \cup {"."}
                  /\ Len(whole) + Len(frac) > 0
                  /\ Len(frac) <= 2
    IN  IF ~ok THEN [ok |-> FALSE, value |-> 0]
        ELSE [ok |-> TRUE,
              value |-> Hundredths * DigitsValue(whole)
                        + (IF Len(frac) = 1 THEN 10 * DigitsValue(frac)
                           ELSE DigitsValue(frac))]

\* amt.replace(',', '')
RECURSIVE remove_commas(_)
remove_commas(s) ==
    IF s = << >> THEN << >>
    ELSE IF Head(s) = "," THEN remove_commas(Tail(s))
    ELSE <<Head(s)>> \o remove_commas(Tail(s))

\* A date string is kept as the layout it is written in and the instant it
\* denotes under that layout; datetime.strptime(s, fmt) succeeds exactly
\* when fmt is that layout.
strptime(date_str, fmt) ==
    IF date_str.layout = fmt THEN [ok |-> TRUE, value |-> date_str.at]
    ELSE [ok |-> FALSE, value |-> 0]

(***************************************************************************)
(* ai_fraud_detection                                                      *)
(***************************************************************************)
DuplicateThreshold == 80
W_red_flags == 50
W_anomalies == 30
W_warnings == 10
RiskHigh == 100
RiskMedium == 50
RoundAmount == 1000

DuplicateKeys == {"name", "student_id", "grade"}

\* a plausible slip: one equal field is enough
_is_duplicate_document_any(doc1, doc2) ==
    \E k \in DuplicateKeys :
        k \in DOMAIN doc1 /\ k \in DOMAIN doc2 /\ lower(doc1[k]) = lower(doc2[k])

_is_duplicate_document(doc1, doc2) ==
    LET compared == {k \in DuplicateKeys : k \in DOMAIN doc1 /\ k \in DOMAIN doc2}
        equal    == {k \in compared : lower(doc1[k]) = lower(doc2[k])}
    IN  IF compared = {} THEN FALSE
        ELSE (Cardinality(equal) * Scale) \div Cardinality(compared)
                > Pct(DuplicateThreshold)

\* the warnings of the date block: one per date that parses as dd/mm/yyyy
\* and lies after datetime.now(), only when there is more than one date
fraud_date_warnings(structured, now) ==
    IF "dates" \in DOMAIN structured /\ Len(structured["dates"]) > 1
    THEN SelectSeq([n \in DOMAIN structured["dates"] |->
                       <<"Future date detected", structured["dates"][n]>>],
                   LAMBDA w : /\ strptime(w[2], "d/m/Y").ok
                              /\ strptime(w[2], "d/m/Y").value > now)
    ELSE << >>

\* the warning of the amount block
fraud_amount_warnings(structured) ==
    IF "amounts" \in DOMAIN structured
    THEN LET amounts == [n \in DOMAIN structured["amounts"] |->
                            float(remove_commas(structured["amounts"][n])).value]
             round   == {n \in DOMAIN amounts :
                            amounts[n] % (RoundAmount * Hundredths) = 0}
         IN  IF Len(amounts) > 0 /\ Cardinality(round) = Len(amounts) /\ Len(amounts) > 1
             THEN << <<"All amounts are round numbers - verify authenticity">> >>
             ELSE << >>
    ELSE << >>

risk_score(red_flags, anomalies, warnings) ==
      Times(Len(red_flags) * Scale, W_red_flags)
    + Times(Len(anomalies) * Scale, W_anomalies)
    + Times(Len(warnings) * Scale, W_warnings)

\* a plausible slip: the bounds of the levels taken inclusively
fraud_risk_level_inclusive(score) ==
    IF score >= Pct(RiskHigh) THEN "high"
    ELSE IF score >= Pct(RiskMedium) THEN "medium"
    ELSE "low"

\* the risk level as the code leaves it: line 596 sets 'high' for a duplicate,
\* lines 636-644 then assign it again from the score alone
fraud_risk_level(score) ==
    IF score > Pct(RiskHigh) THEN "high"
    ELSE IF score > Pct(RiskMedium) THEN "medium"
    ELSE "low"

fraud_status(score) ==
    IF score > Pct(RiskHigh) THEN "requires_review"
    ELSE IF score > Pct(RiskMedium) THEN "review_recommended"
    ELSE "passed"

\* 1.0 - min(risk_score / 2.0, 1.0)
fraud_confidence(score) == Scale - Min(score \div 2, Scale)

\* float(amt.replace(',', '')) raises ValueError on a malformed amount
fraud_amounts_raise(structured) ==
    /\ "amounts" \in DOMAIN structured
    /\ \E n \in DOMAIN structured["amounts"] :
          ~float(remove_commas(structured["amounts"][n])).ok

ai_fraud_detection(extracted_data, document_history, now) ==
    LET structured == Get(extracted_data, "structured_data", EmptyDict)
        \* past_doc.get raises on an entry that is not a dict
        raising == {n \in DOMAIN document_history : IsNone(document_history[n])}
        stop    == IF raising # {}
                   THEN CHOOSE n \in raising : \A m \in raising : n <= m
                   ELSE Len(document_history) + 1
        dups    == {n \in 1..(stop - 1) :
                       _is_duplicate_document(
                           structured,
                           Get(document_history[n], "structured_data", EmptyDict))}
        red_flags == [n \in 1..Cardinality(dups) |->
                         <<"Possible duplicate submission detected">>]
        date_warnings == fraud_date_warnings(structured, now)
        anomalies == << >>
    IN  IF raising # {}
        THEN [status |-> "error",
              risk_level |-> IF dups # {} THEN "high" ELSE "low",
              confidence |-> 0,
              anomalies |-> << >>,
              red_flags |-> red_flags \o << <<"Fraud detection error">> >>,
              warnings |-> << >>]
        ELSE IF fraud_amounts_raise(structured)
        THEN [status |-> "error",
              risk_level |-> IF dups # {} THEN "high" ELSE "low",
              confidence |-> 0,
              anomalies |-> << >>,
              red_flags |-> red_flags \o << <<"Fraud detection error">> >>,
              warnings |-> date_warnings]
        ELSE LET warnings == date_warnings \o fraud_amount_warnings(structured)
                 score    == risk_score(red_flags, anomalies, warnings)
             IN  [status |-> fraud_status(score),
                  risk_level |-> fraud_risk_level(score),
                  confidence |-> fraud_confidence(score),
                  anomalies |-> anomalies,
                  red_flags |-> red_flags,
                  warnings |-> warnings]

(***************************************************************************)
(* extract_text_with_ocr                                                   *)
(*                                                                         *)
(* A file is kept as what the libraries find in it:                        *)
(*   text_len   length of the stripped text of its PDF/DOCX text layer     *)
(*              (0 when the extractor fails and returns "")                *)
(*   image_ok   PIL opens it as an image                                   *)
(*   tokens     the per-token confidences pytesseract reports (none when   *)
(*              the OCR engine fails)                                      *)
(*   fields     what _parse_document_fields finds in its text              *)
(*   stamp, signature, quality   the results of the three image heuristics *)
(***************************************************************************)
PdfTextMinimum == 100
NativeTextConfidence == 95
OcrConfidenceUnit == 100

ExtPdf == <<".", "p", "d", "f">>
ExtJpg == <<".", "j", "p", "g">>
ExtJpeg == <<".", "j", "p", "e", "g">>
ExtPng == <<".", "P", "N", "G">>
ExtTiff == <<".", "t", "i", "f", "f">>
ExtBmp == <<".", "b", "m", "p">>
ExtDocx == <<".", "d", "o", "c", "x">>
ExtTxt == <<".", "t", "x", "t">>

\* a plausible slip: .bmp left out of the list of image types
OcrExtensions_short == {ExtJpg, ExtJpeg, lower(ExtPng), ExtTiff}

OcrExtensions == {ExtJpg, ExtJpeg, lower(ExtPng), ExtTiff, ExtBmp}
HeuristicExtensions == {ExtJpg, ExtJpeg, lower(ExtPng)}

SeqSum(s) ==
    LET RECURSIVE Sum(_)
        Sum(n) == IF n = 0 THEN 0 ELSE s[n] + Sum(n - 1)
    IN  Sum(Len(s))

\* a plausible slip: the average is returned without dividing by 100
_ocr_confidence_raw(tokens) ==
    LET confidences == SelectSeq(tokens, LAMBDA c : c > 0)
    IN  IF confidences = << >> THEN 0
        ELSE (SeqSum(confidences) * Scale) \div Len(confidences)

\* avg_confidence / 100.0 over the detections with conf > 0
_ocr_confidence(tokens) ==
    LET confidences == SelectSeq(tokens, LAMBDA c : c > 0)
    IN  IF confidences = << >> THEN 0
        ELSE (SeqSum(confidences) * Scale) \div (Len(confidences) * OcrConfidenceUnit)

\* the pair (len(text), confidence) of _ocr_from_image
_ocr_from_image(file) ==
    IF ~file.image_ok THEN [text_len |-> 0, confidence |-> 0]
    ELSE [text_len |-> Len(SelectSeq(file.tokens, LAMBDA c : c > 0)),
          confidence |-> _ocr_confidence(file.tokens)]

\* the pair (len(text), confidence) of _ocr_from_pdf, which is a stub
_ocr_from_pdf(file) == [text_len |-> 0, confidence |-> 0]

extract_text_with_ocr(file, file_extension) ==
    LET ext == lower(file_extension)
        raw ==
            IF ext = ExtPdf
            THEN IF file.text_len > PdfTextMinimum
                 THEN [text_len |-> file.text_len,
                       confidence |-> Pct(NativeTextConfidence),
                       method |-> "pdf_text_extraction"]
                 ELSE [text_len |-> _ocr_from_pdf(file).text_len,
                       confidence |-> _ocr_from_pdf(file).confidence,
                       method |-> "ocr_pdf"]
            ELSE IF ext \in OcrExtensions
            THEN [text_len |-> _ocr_from_image(file).text_len,
                  confidence |-> _ocr_from_image(file).confidence,
                  method |-> "ocr_image"]
            ELSE IF ext = ExtDocx
            THEN [text_len |-> file.text_len,
                  confidence |-> Pct(NativeTextConfidence),
                  method |-> "docx_extraction"]
            ELSE [text_len |-> 0, confidence |-> 0, method |-> "none"]
    IN  IF file_extension = NoneStr
        THEN [text_len |-> 0, confidence |-> 0, method |-> "error",
              structured_data |-> EmptyDict]
        ELSE [text_len |-> raw.text_len, confidence |-> raw.confidence,
              method |-> raw.method,
              structured_data |-> IF raw.text_len > 0 THEN file.fields ELSE EmptyDict]

(***************************************************************************)
(* verify_document_authenticity                                            *)
(***************************************************************************)
W_stamp == 30
W_signature == 20
W_image_quality == 20
W_ocr_confidence == 30
LowImageQuality == 30
LowOcrConfidence == 50
AuthenticityVerified == 70
AuthenticityReview == 40

\* a plausible slip: the review threshold typed as 0.5
authenticity_status_half(confidence) ==
    IF confidence >= Pct(AuthenticityVerified) THEN "verified"
    ELSE IF confidence >= Pct(50) THEN "review_required"
    ELSE "suspicious"

authenticity_status(confidence) ==
    IF confidence >= Pct(AuthenticityVerified) THEN "verified"
    ELSE IF confidence >= Pct(AuthenticityReview) THEN "review_required"
    ELSE "suspicious"

\* a plausible slip: a detection counted as 1 whatever its weight
BoolTimes_unweighted(b, w) == IF b THEN Scale ELSE 0

\* True * 0.3 is 0.3 and False * 0.3 is 0
BoolTimes(b, w) == IF b THEN Pct(w) ELSE 0

verify_document_authenticity(file, file_extension, extracted_data) ==
    LET image   == lower(file_extension) \in HeuristicExtensions
        ocr     == Get(extracted_data, "confidence", 0)
        checks  == (IF image
                    THEN [stamp_detected |-> file.stamp,
                          signature_detected |-> file.signature,
                          image_quality |-> file.quality]
                    ELSE EmptyDict)
                   @@ [ocr_confidence |-> ocr]
        issues  == (IF image /\ file.quality < Pct(LowImageQuality)
                    THEN << <<"Low image quality - possible screenshot or photocopy">> >>
                    ELSE << >>)
                   \o (IF ocr < Pct(LowOcrConfidence)
                       THEN << <<"Low OCR confidence - document may be unclear or tampered">> >>
                       ELSE << >>)
        conf    ==   BoolTimes(Get(checks, "stamp_detected", FALSE), W_stamp)
                   + BoolTimes(Get(checks, "signature_detected", FALSE), W_signature)
                   + Times(Get(checks, "image_quality", 0), W_image_quality)
                   + Times(Get(checks, "ocr_confidence", 0), W_ocr_confidence)
    IN  IF image /\ ~file.image_ok
        THEN \* Image.open raises
             [status |-> "error", confidence |-> 0, checks |-> EmptyDict,
              issues |-> << <<"Authenticity check error">> >>]
        ELSE [status |-> authenticity_status(conf), confidence |-> conf,
              checks |-> checks, issues |-> issues]

(***************************************************************************)
(* verify_data_validity                                                    *)
(***************************************************************************)
TenYears == 3650
ValidityValid == 80
ValidityReview == 50
ValidityNeutral == 50

DateFormats == <<"d/m/Y", "d-m-Y", "Y-m-d", "m/d/Y">>

\* (is_valid, message) of _validate_date at the instant now
_validate_date(date_str, now) ==
    LET parsing == {n \in DOMAIN DateFormats : strptime(date_str, DateFormats[n]).ok}
    IN  IF parsing = {}
        THEN [is_valid |-> FALSE, msg |-> <<"Invalid date format", date_str>>]
        ELSE LET parsed_date ==
                     strptime(date_str,
                              DateFormats[CHOOSE n \in parsing :
                                             \A m \in parsing : n <= m]).value
             IN  IF parsed_date > now
                 THEN [is_valid |-> FALSE, msg |-> <<"Future date detected", date_str>>]
                 ELSE IF parsed_date < now - TenYears
                 THEN [is_valid |-> TRUE, msg |-> <<"Warning: Very old date", date_str>>]
                 ELSE [is_valid |-> TRUE, msg |-> <<"Date valid">>]

\* float(...) of the grade or of an amount raises ValueError
validity_raises(structured, requirements) ==
    \/ /\ "grade" \in DOMAIN structured /\ "min_grade" \in DOMAIN requirements
       /\ ~float(structured["grade"]).ok
    \/ /\ "amounts" \in DOMAIN structured /\ "max_income" \in DOMAIN requirements
       /\ \E n \in DOMAIN structured["amounts"] :
             ~float(remove_commas(structured["amounts"][n])).ok

SeqMax(s) == CHOOSE x \in {s[n] : n \in DOMAIN s} : \A n \in DOMAIN s : s[n] <= x

\* a plausible slip: the review threshold compared strictly
validity_status_strict(confidence, issues) ==
    IF confidence >= Pct(ValidityValid) /\ issues = << >> THEN "valid"
    ELSE IF confidence > Pct(ValidityReview) THEN "review_required"
    ELSE "invalid"

validity_status(confidence, issues) ==
    IF confidence >= Pct(ValidityValid) /\ issues = << >> THEN "valid"
    ELSE IF confidence >= Pct(ValidityReview) THEN "review_required"
    ELSE "invalid"

verify_data_validity(extracted_data, scholarship_requirements, now) ==
    LET structured == Get(extracted_data, "structured_data", EmptyDict)
        grade_applies  == "grade" \in DOMAIN structured
                            /\ "min_grade" \in DOMAIN scholarship_requirements
        income_applies == "amounts" \in DOMAIN structured
                            /\ "max_income" \in DOMAIN scholarship_requirements
        doc_grade  == float(structured["grade"]).value
        min_grade  == scholarship_requirements["min_grade"]
        income_values == [n \in DOMAIN structured["amounts"] |->
                             float(remove_commas(structured["amounts"][n])).value]
        max_income_doc == IF income_values # << >> THEN SeqMax(income_values) ELSE 0
        max_income_req == scholarship_requirements["max_income"]
        grade_check  == IF grade_applies
                        THEN [grade_requirement |->
                                [met |-> doc_grade >= min_grade,
                                 value |-> doc_grade, required |-> min_grade]]
                        ELSE EmptyDict
        income_check == IF income_applies
                        THEN [income_requirement |->
                                [met |-> max_income_doc <= max_income_req,
                                 value |-> max_income_doc, required |-> max_income_req]]
                        ELSE EmptyDict
        checks  == grade_check @@ income_check
        issues  == (IF grade_applies /\ ~(doc_grade >= min_grade)
                    THEN << <<"Grade below minimum requirement", doc_grade, min_grade>> >>
                    ELSE << >>)
                   \o (IF income_applies /\ ~(max_income_doc <= max_income_req)
                       THEN << <<"Income exceeds maximum", max_income_doc, max_income_req>> >>
                       ELSE << >>)
        dates    == Get(structured, "dates", << >>)
        verdicts == [n \in DOMAIN dates |-> _validate_date(dates[n], now)]
        warnings == [n \in DOMAIN SelectSeq(verdicts, LAMBDA v : ~v.is_valid) |->
                        SelectSeq(verdicts, LAMBDA v : ~v.is_valid)[n].msg]
        total   == Cardinality(DOMAIN checks)
        met     == Cardinality({k \in DOMAIN checks : checks[k].met})
        conf    == IF total > 0 THEN (met * Scale) \div total ELSE Pct(ValidityNeutral)
    IN  IF validity_raises(structured, scholarship_requirements)
        THEN [status |-> "error", confidence |-> 0,
              checks |-> IF grade_applies /\ float(structured["grade"]).ok
                         THEN grade_check ELSE EmptyDict,
              issues |-> (IF grade_applies /\ float(structured["grade"]).ok
                          THEN SubSeq(issues, 1, IF doc_grade >= min_grade THEN 0 ELSE 1)
                          ELSE << >>)
                         \o << <<"Validity check error">> >>,
              warnings |-> << >>]
        ELSE [status |-> validity_status(conf, issues), confidence |-> conf,
              checks |-> checks, issues |-> issues, warnings |-> warnings]

(***************************************************************************)
(* check_completeness                                                      *)
(***************************************************************************)
CompletenessMostly == 70

\* a plausible slip: the mostly_complete threshold typed as 0.8
completeness_status_eighty(confidence) ==
    IF confidence = Scale THEN "complete"
    ELSE IF confidence >= Pct(CompletenessMostly + 10) THEN "mostly_complete"
    ELSE "incomplete"

completeness_status(confidence) ==
    IF confidence = Scale THEN "complete"
    ELSE IF confidence >= Pct(CompletenessMostly) THEN "mostly_complete"
    ELSE "incomplete"

\* a plausible slip: the present types are counted against the uploads
completeness_confidence_by_uploads(present, required_documents, uploaded_types) ==
    IF Cardinality(uploaded_types) > 0
    THEN (Len(present) * Scale) \div Cardinality(uploaded_types)
    ELSE 0

\* len(present) / total_required; stays 0.0 when nothing is required
completeness_confidence(present, required_documents, uploaded_types) ==
    IF Len(required_documents) > 0
    THEN (Len(present) * Scale) \div Len(required_documents)
    ELSE 0

check_completeness(uploaded_documents, required_documents) ==
    LET \* doc.get('document_type', '').lower() raises on a type that is None
        raised == \E n \in DOMAIN uploaded_documents :
                     Get(uploaded_documents[n], "document_type", << >>) = NoneStr
        uploaded_types ==
            {lower(Get(uploaded_documents[n], "document_type", << >>)) :
                n \in DOMAIN uploaded_documents} \ { << >> }
        present == SelectSeq(required_documents, LAMBDA r : lower(r) \in uploaded_types)
        missing == SelectSeq(required_documents, LAMBDA r : lower(r) \notin uploaded_types)
        issues  == [n \in DOMAIN missing |-> <<"Missing required document", missing[n]>>]
        conf    == completeness_confidence(present, required_documents, uploaded_types)
    IN  IF raised
        THEN [status |-> "error", confidence |-> 0, present |-> << >>,
              missing |-> << >>, issues |-> << <<"Completeness check error">> >>]
        ELSE [status |-> completeness_status(conf), confidence |-> conf,
              present |-> present, missing |-> missing, issues |-> issues]

(***************************************************************************)
(* auto_decision                                                           *)
(***************************************************************************)
W_identity == 25
W_authenticity == 20
W_validity == 25
W_completeness == 15
W_fraud == 15

ApproveThreshold == 80
ReviewThreshold == 60

NoDecision == [action |-> "none"]

\* a plausible slip: the decision starts out flagged for manual review
decision_initial_flagged ==
    [action |-> "pending", confidence |-> 0, reason |-> << >>,
     requires_manual_review |-> TRUE, review_priority |-> "normal"]

\* the decision dict as initialised at the top of auto_decision
decision_initial ==
    [action |-> "pending", confidence |-> 0, reason |-> << >>,
     requires_manual_review |-> FALSE, review_priority |-> "normal"]

\* check.get(...) on a value that is not a dict raises inside the try block
auto_decision_raises(all) ==
    \E k \in CheckNames : IsNone(all[k])

\* a plausible slip: the identity and authenticity weights exchanged
weighted_confidence_swapped(all) ==
      Times(Get(all["identity"], "confidence", 0), W_authenticity)
    + Times(Get(all["authenticity"], "confidence", 0), W_identity)
    + Times(Get(all["validity"], "confidence", 0), W_validity)
    + Times(Get(all["completeness"], "confidence", 0), W_completeness)
    + Times(Get(all["fraud"], "confidence", 0), W_fraud)

\* decision['confidence'] = sum(confidences)
weighted_confidence(all) ==
      Times(Get(all["identity"], "confidence", 0), W_identity)
    + Times(Get(all["authenticity"], "confidence", 0), W_authenticity)
    + Times(Get(all["validity"], "confidence", 0), W_validity)
    + Times(Get(all["completeness"], "confidence", 0), W_completeness)
    + Times(Get(all["fraud"], "confidence", 0), W_fraud)

\* a plausible slip: the completeness condition is left out
critical_issues_without_completeness(all) ==
       (IF Get(all["identity"], "status", "") = "failed"
          THEN <<"Identity verification failed">> ELSE << >>)
    \o (IF Get(all["authenticity"], "status", "") = "suspicious"
          THEN <<"Document authenticity suspicious">> ELSE << >>)
    \o (IF Get(all["validity"], "status", "") = "invalid"
          THEN <<"Eligibility criteria not met">> ELSE << >>)
    \o (IF Get(all["fraud"], "risk_level", "") = "high"
          THEN <<"High fraud risk detected">> ELSE << >>)

\* the list critical_issues, in the order the code appends to it
critical_issues(all) ==
       (IF Get(all["identity"], "status", "") = "failed"
          THEN <<"Identity verification failed">> ELSE << >>)
    \o (IF Get(all["authenticity"], "status", "") = "suspicious"
          THEN <<"Document authenticity suspicious">> ELSE << >>)
    \o (IF Get(all["validity"], "status", "") = "invalid"
          THEN <<"Eligibility criteria not met">> ELSE << >>)
    \o (IF Get(all["completeness"], "status", "") = "incomplete"
          THEN <<"Required documents missing">> ELSE << >>)
    \o (IF Get(all["fraud"], "risk_level", "") = "high"
          THEN <<"High fraud risk detected">> ELSE << >>)

\* a plausible slip: the handler reports the error but leaves the flags
error_decision_flags_unset ==
    [decision_initial EXCEPT
        !.action = "error",
        !.reason = <<"Decision error">>]

\* the except branch of auto_decision
error_decision ==
    [decision_initial EXCEPT
        !.action = "error",
        !.reason = <<"Decision error">>,
        !.requires_manual_review = TRUE,
        !.review_priority = "urgent"]

auto_decision(all) ==
    IF auto_decision_raises(all)
    THEN error_decision
    ELSE LET conf == weighted_confidence(all)
             crit == critical_issues(all)
             d0   == [decision_initial EXCEPT !.confidence = conf]
         IN  IF crit # << >>
             THEN [d0 EXCEPT !.action = "reject",
                             !.reason = crit,
                             !.requires_manual_review = TRUE,
                             !.review_priority = "high"]
             ELSE IF conf >= Pct(ApproveThreshold)
             THEN [d0 EXCEPT !.action = "approve",
                             !.reason = <<"All verification checks passed successfully">>]
             ELSE IF conf >= Pct(ReviewThreshold)
             THEN [d0 EXCEPT !.action = "review",
                             !.reason = <<"Some verification checks require manual review">>,
                             !.requires_manual_review = TRUE,
                             !.review_priority = "medium"]
             ELSE [d0 EXCEPT !.action = "review",
                             !.reason = <<"Multiple verification checks failed or incomplete">>,
                             !.requires_manual_review = TRUE,
                             !.review_priority = "high"]

\* no request is being served
NoResponse == [status_code |-> 0]
NoApplications ==
    /\ applications_db = << >>
    /\ application_counter = 1

\* no ServiceRequest row of the simple endpoint
NoUploads ==
    /\ service_request = None
    /\ documents = << >>

NoRequest ==
    /\ document_analyses = << >>
    /\ request_status = "none"
    /\ response = NoResponse
    /\ NoApplications
    /\ NoUploads

(***************************************************************************)
(* SpecDecision: auto_decision applied to every combination of five check  *)
(* results drawn from the grids below.                                     *)
(***************************************************************************)
DecisionConfidences == {0, Pct(80), Scale}

ResultInputs(statuses) ==
    [status : statuses \cup {"error"}, confidence : DecisionConfidences] \cup {None}

FraudInputs ==
    { [status |-> "passed", risk_level |-> "low", confidence |-> c] :
          c \in DecisionConfidences }
    \cup { [status |-> "review_recommended", risk_level |-> "medium", confidence |-> c] :
          c \in DecisionConfidences }
    \cup { [status |-> "requires_review", risk_level |-> "high", confidence |-> c] :
          c \in DecisionConfidences }
    \cup { [status |-> "error", risk_level |-> r, confidence |-> c] :
          r \in {"low", "high"}, c \in DecisionConfidences }
    \cup {None}

InitDecision ==
    /\ \E i \in ResultInputs({"verified", "review_required", "failed"}),
          a \in ResultInputs({"verified", "review_required", "suspicious"}),
          v \in ResultInputs({"valid", "review_required", "invalid"}),
          c \in ResultInputs({"complete", "mostly_complete", "incomplete"}),
          f \in FraudInputs :
            results = [identity |-> i, authenticity |-> a, validity |-> v,
                       completeness |-> c, fraud |-> f]
    /\ decision = NoDecision
    /\ pc = "decide"
    /\ args = NoArgs
    /\ clock = 0
    /\ extracted = NotRun
    /\ previous = NoDecision
    /\ NoRequest

Decide ==
    /\ pc = "decide"
    /\ decision' = auto_decision(results)
    /\ pc' = "decided"
    /\ UNCHANGED <<args, clock, extracted, results, previous, endpoint>>

NextDecision == Decide

SpecDecision == InitDecision /\ [][NextDecision]_vars

(***************************************************************************)
(* SpecIdentity: verify_identity applied to every pair of structured       *)
(* fields and subject record drawn from the sets below.                    *)
(***************************************************************************)
AllNotRun == [k \in CheckNames |-> NotRun]

\* a key that is absent, or present with one of the values
Optional(key, values) == { EmptyDict } \cup { [k \in {key} |-> v] : v \in values }

NameAshaR == <<"A", "s", "h", "a", " ", "R">>
NameAshaRSpaced == <<"a", "s", "h", "a", " ", "r", " ">>
NameAshaB == <<"A", "s", "h", "a", " ", "B">>
NameAshar == <<"A", "s", "h", "a", "r">>
NameAshab == <<"A", "s", "h", "a", "b">>
NameAsha == <<"A", "s", "h", "a">>

IdS1 == <<"S", "1">>
Ids1 == <<"s", "1">>
IdS2 == <<"S", "2">>

DeptCS == <<"C", "S">>
DeptCSE == <<"c", "s", "e">>
DeptEE == <<"E", "E">>

IdentityDocs ==
    { n @@ i @@ d :
        n \in Optional("name", {NameAshaR, NameAshaRSpaced, NameAshaB, NameAshab, NameAsha}),
        i \in Optional("student_id", {IdS1, Ids1, IdS2}),
        d \in Optional("department", {DeptCS, DeptCSE, DeptEE}) }

IdentityUsers ==
    { n @@ i @@ d :
        n \in Optional("full_name", {NameAshaR, NameAshar, NoneStr}),
        i \in Optional("student_id", {IdS1, NoneStr}),
        d \in Optional("department", {DeptCS, NoneStr}) }

InitIdentity ==
    /\ \E sd \in IdentityDocs : extracted = [structured_data |-> sd]
    /\ \E ud \in IdentityUsers : args = [user_data |-> ud]
    /\ clock = 0
    /\ results = AllNotRun
    /\ decision = NoDecision
    /\ previous = NoDecision
    /\ NoRequest
    /\ pc = "call"

CallVerifyIdentity ==
    /\ pc = "call"
    /\ results' = [results EXCEPT
                     !["identity"] = verify_identity(extracted, args.user_data)]
    /\ pc' = "returned"
    /\ UNCHANGED <<args, clock, extracted, decision, previous, endpoint>>

NextIdentity == CallVerifyIdentity

SpecIdentity == InitIdentity /\ [][NextIdentity]_vars

(***************************************************************************)
(* SpecFraud: ai_fraud_detection applied to every extraction and history   *)
(* drawn from the sets below.                                              *)
(***************************************************************************)
MaxHistory == 2

\* the instant the clock shows when a run starts
Today == 7300

Grade85 == <<"8", ".", "5">>
Grade65 == <<"6", ".", "5">>

DatePast == [layout |-> "d/m/Y", at |-> Today - 1]
DateFuture == [layout |-> "d/m/Y", at |-> Today + 1]
DateFutureDashed == [layout |-> "d-m-Y", at |-> Today + 1]

Amount5000 == <<"5", ",", "0", "0", "0">>
Amount2000 == <<"2", ",", "0", "0", "0">>
Amount5250 == <<"5", ",", "2", "5", "0", ".", "5", "0">>
AmountBad == <<"5", ".", "0", ".", "0">>

FraudDocs ==
    { n @@ i @@ g @@ d @@ a :
        n \in Optional("name", {NameAshaR}),
        i \in Optional("student_id", {IdS1}),
        g \in Optional("grade", {Grade85}),
        d \in Optional("dates", {<<DateFuture>>, <<DatePast, DateFuture>>,
                                 <<DateFutureDashed, DatePast>>}),
        a \in Optional("amounts", {<<Amount5000>>, <<Amount5000, Amount2000>>,
                                   <<Amount5250, Amount2000>>, <<AmountBad>>}) }

PastDocs ==
    { [structured_data |-> [name |-> NameAshaR, student_id |-> IdS1, grade |-> Grade85]],
      [structured_data |-> [name |-> NameAshaRSpaced, student_id |-> IdS1, grade |-> Grade85]],
      [structured_data |-> [name |-> lower(NameAshaR), student_id |-> Ids1, grade |-> Grade85]],
      [structured_data |-> [name |-> NameAshaR]],
      [structured_data |-> EmptyDict],
      None }

Histories == UNION { [1..n -> PastDocs] : n \in 0..MaxHistory }

InitFraud ==
    /\ \E sd \in FraudDocs : extracted = [structured_data |-> sd]
    /\ \E h \in Histories : args = [document_history |-> h]
    /\ clock = Today
    /\ results = AllNotRun
    /\ decision = NoDecision
    /\ previous = NoDecision
    /\ NoRequest
    /\ pc = "call"

CallFraudDetection ==
    /\ pc = "call"
    /\ results' = [results EXCEPT
                     !["fraud"] = ai_fraud_detection(extracted, args.document_history, clock)]
    /\ pc' = "returned"
    /\ UNCHANGED <<args, clock, extracted, decision, previous, endpoint>>

NextFraud == CallFraudDetection

SpecFraud == InitFraud /\ [][NextFraud]_vars

(***************************************************************************)
(* SpecPipeline: one verification run of the service over one document:    *)
(* extraction, the five checks in the order the endpoint calls them, then  *)
(* auto_decision.  Every input of the run is drawn at the start.           *)
(***************************************************************************)
GradeBad == <<"8", ".", "5", ".">>
Amount700000 == <<"7", "0", "0", ",", "0", "0", "0">>

\* document type labels (the endpoint's four required types, abbreviated)
TypeIncome == <<"i", "n", "c", "o", "m", "e">>
TypeGrade == <<"g", "r", "a", "d", "e">>
TypeBank == <<"b", "a", "n", "k">>
TypeId == <<"i", "d">>
TypeGradeUpper == <<"G", "R", "A", "D", "E">>

\* scholarship_requirements of the endpoint, in hundredths
MinGrade == 700
MaxIncome == 60000000

FieldsGood ==
    [name |-> NameAshaR, student_id |-> IdS1, department |-> DeptCS,
     grade |-> Grade85, amounts |-> <<Amount5000>>, dates |-> <<DatePast>>]

PipelineFields ==
    { FieldsGood,
      [FieldsGood EXCEPT !.grade = Grade65],
      [FieldsGood EXCEPT !.grade = Grade65, !.amounts = <<Amount5000, Amount700000>>],
      [FieldsGood EXCEPT !.dates = <<DatePast, DateFuture>>],
      [FieldsGood EXCEPT !.grade = GradeBad],
      [name |-> NameAsha],
      EmptyDict }

NoImage == [image_ok |-> FALSE, tokens |-> << >>, stamp |-> FALSE,
            signature |-> FALSE, quality |-> 0]

File(ext, text_len, image, fields) ==
    [extension |-> ext, text_len |-> text_len, fields |-> fields] @@ image

Images ==
    [image_ok : {TRUE}, tokens : {<<90>>, <<40, -1>>},
     stamp : BOOLEAN, signature : BOOLEAN, quality : {0, Pct(25), Scale}]

PipelineFiles ==
    { File(ExtJpg, 0, i, f) : i \in Images, f \in PipelineFields }
    \cup { File(ExtJpg, 0, [i EXCEPT !.tokens = << >>], EmptyDict) : i \in Images }
    \cup { File(ExtPng, 0, NoImage, EmptyDict) }
    \cup { File(ExtTiff, 0, [NoImage EXCEPT !.image_ok = TRUE, !.tokens = <<90>>], f) :
              f \in PipelineFields }
    \cup { File(ExtPdf, PdfTextMinimum + 1, NoImage, f) : f \in PipelineFields }
    \cup { File(ExtPdf, PdfTextMinimum, NoImage, FieldsGood) }
    \cup { File(ExtDocx, PdfTextMinimum, NoImage, f) : f \in PipelineFields }
    \cup { File(ExtTxt, PdfTextMinimum, NoImage, FieldsGood) }

PipelineUsers ==
    { [full_name |-> NameAshaR, student_id |-> IdS1, department |-> DeptCS],
      [full_name |-> NameAshaR, student_id |-> IdS2, department |-> DeptEE],
      [full_name |-> NameAshaR, student_id |-> NoneStr, department |-> NoneStr] }

PipelineRequirements ==
    { [min_grade |-> MinGrade, max_income |-> MaxIncome], EmptyDict }

RequiredDocuments == <<TypeIncome, TypeGrade, TypeBank, TypeId>>

Uploads(types) == [n \in DOMAIN types |-> [document_type |-> types[n]]]

\* pairs (uploaded_documents, required_documents)
PipelineCompleteness ==
    { <<Uploads(<<TypeGradeUpper>>), <<TypeGrade>>>>,
      <<Uploads(<<TypeGrade, TypeId, TypeBank>>), RequiredDocuments>>,
      <<Uploads(<<TypeGrade>>), RequiredDocuments>>,
      <<Uploads(<<TypeGrade>>), << >> >>,
      <<Uploads(<<NoneStr>>), RequiredDocuments>> }

PastDuplicate == [structured_data |-> [name |-> NameAshaR, student_id |-> IdS1,
                                        grade |-> Grade85]]

PipelineHistories ==
    { << >>, <<PastDuplicate>>, <<None>>,
      <<PastDuplicate, PastDuplicate, PastDuplicate, PastDuplicate, PastDuplicate>> }

PipelineArgs ==
    { [file |-> f, user_data |-> u, scholarship_requirements |-> q,
       uploaded_documents |-> c[1], required_documents |-> c[2],
       document_history |-> h] :
        f \in PipelineFiles, u \in PipelineUsers, q \in PipelineRequirements,
        c \in PipelineCompleteness, h \in PipelineHistories }

RunStart ==
    /\ extracted = NotRun
    /\ results = AllNotRun
    /\ decision = NoDecision
    /\ pc = "extract"

InitPipeline ==
    /\ args \in PipelineArgs
    /\ clock = Today
    /\ previous = NoDecision
    /\ NoRequest
    /\ RunStart

Extract ==
    /\ pc = "extract"
    /\ extracted' = extract_text_with_ocr(args.file, args.file.extension)
    /\ pc' = "identity"
    /\ UNCHANGED <<args, clock, results, decision, previous, endpoint>>

VerifyIdentity ==
    /\ pc = "identity"
    /\ results' = [results EXCEPT
                     !["identity"] = verify_identity(extracted, args.user_data)]
    /\ pc' = "authenticity"
    /\ UNCHANGED <<args, clock, extracted, decision, previous, endpoint>>

VerifyAuthenticity ==
    /\ pc = "authenticity"
    /\ results' = [results EXCEPT
                     !["authenticity"] =
                        verify_document_authenticity(args.file, args.file.extension,
                                                     extracted)]
    /\ pc' = "validity"
    /\ UNCHANGED <<args, clock, extracted, decision, previous, endpoint>>

VerifyValidity ==
    /\ pc = "validity"
    /\ results' = [results EXCEPT
                     !["validity"] =
                        verify_data_validity(extracted, args.scholarship_requirements,
                                             clock)]
    /\ pc' = "completeness"
    /\ UNCHANGED <<args, clock, extracted, decision, previous, endpoint>>

CheckCompleteness ==
    /\ pc = "completeness"
    /\ results' = [results EXCEPT
                     !["completeness"] =
                        check_completeness(args.uploaded_documents,
                                           args.required_documents)]
    /\ pc' = "fraud"
    /\ UNCHANGED <<args, clock, extracted, decision, previous, endpoint>>

DetectFraud ==
    /\ pc = "fraud"
    /\ results' = [results EXCEPT
                     !["fraud"] =
                        ai_fraud_detection(extracted, args.document_history, clock)]
    /\ pc' = "decide"
    /\ UNCHANGED <<args, clock, extracted, decision, previous, endpoint>>

RunStep ==
    \/ Extract
    \/ VerifyIdentity
    \/ VerifyAuthenticity
    \/ VerifyValidity
    \/ CheckCompleteness
    \/ DetectFraud
    \/ Decide

NextPipeline == RunStep

SpecPipeline == InitPipeline /\ [][NextPipeline]_vars

(***************************************************************************)
(* SpecValidity: verify_data_validity applied to every extraction and      *)
(* every requirements dict drawn from the sets below.                      *)
(***************************************************************************)
Grade70 == <<"7", ".", "0">>
Amount500000 == <<"5", "0", "0", "0", "0", "0">>
Amount600000 == <<"6", "0", "0", ",", "0", "0", "0">>
DateOld == [layout |-> "Y-m-d", at |-> Today - TenYears - 1]
DateUnparsed == [layout |-> "d.m.Y", at |-> Today - 1]

ValidityDocs ==
    { g @@ a @@ d :
        g \in Optional("grade", {Grade85, Grade70, Grade65, GradeBad}),
        a \in Optional("amounts", {<< >>, <<Amount500000>>, <<Amount600000>>,
                                   <<Amount5000, Amount700000>>, <<AmountBad>>}),
        d \in Optional("dates", {<<DatePast>>, <<DateFuture, DateOld>>,
                                 <<DateUnparsed>>}) }

ValidityRequirements ==
    { g @@ i : g \in Optional("min_grade", {MinGrade}),
               i \in Optional("max_income", {MaxIncome}) }

InitValidity ==
    /\ \E sd \in ValidityDocs : extracted = [structured_data |-> sd]
    /\ \E q \in ValidityRequirements : args = [scholarship_requirements |-> q]
    /\ clock = Today
    /\ results = AllNotRun
    /\ decision = NoDecision
    /\ previous = NoDecision
    /\ NoRequest
    /\ pc = "call"

CallVerifyValidity ==
    /\ pc = "call"
    /\ results' = [results EXCEPT
                     !["validity"] =
                        verify_data_validity(extracted, args.scholarship_requirements,
                                             clock)]
    /\ pc' = "returned"
    /\ UNCHANGED <<args, clock, extracted, decision, previous, endpoint>>

NextValidity == CallVerifyValidity

SpecValidity == InitValidity /\ [][NextValidity]_vars

(***************************************************************************)
(* SpecCompleteness: check_completeness applied to every list of uploads   *)
(* and every list of required types drawn from the sets below, followed by *)
(* auto_decision on that result and four results that raise no objection.  *)
(***************************************************************************)
MaxUploads == 3

\* document_type values of an upload; the empty string is skipped by the code
UploadTypes == {TypeGrade, TypeGradeUpper, TypeId, TypeBank, TypeIncome, << >>}

UploadLists ==
    { Uploads(t) : t \in UNION { [1..n -> UploadTypes] : n \in 0..MaxUploads } }
    \cup { <<EmptyDict>>, Uploads(<<TypeGrade, NoneStr>>) }

RequiredLists ==
    { << >>, <<TypeGrade>>, <<TypeGradeUpper, TypeId>>, <<TypeGrade, TypeGrade>>,
      <<TypeGrade, TypeId, TypeBank>>, RequiredDocuments }

\* results of the other four checks with their top status
TopResults ==
    [identity |-> [status |-> "verified", confidence |-> Scale],
     authenticity |-> [status |-> "verified", confidence |-> Scale],
     validity |-> [status |-> "valid", confidence |-> Scale],
     completeness |-> NotRun,
     fraud |-> [status |-> "passed", confidence |-> Scale]]

InitCompleteness ==
    /\ \E u \in UploadLists, r \in RequiredLists :
          args = [uploaded_documents |-> u, required_documents |-> r]
    /\ clock = Today
    /\ extracted = NotRun
    /\ results = TopResults
    /\ decision = NoDecision
    /\ previous = NoDecision
    /\ NoRequest
    /\ pc = "call"

CallCheckCompleteness ==
    /\ pc = "call"
    /\ results' = [results EXCEPT
                     !["completeness"] =
                        check_completeness(args.uploaded_documents,
                                           args.required_documents)]
    /\ pc' = "decide"
    /\ UNCHANGED <<args, clock, extracted, decision, previous, endpoint>>

NextCompleteness ==
    \/ CallCheckCompleteness
    \/ Decide

SpecCompleteness == InitCompleteness /\ [][NextCompleteness]_vars

(***************************************************************************)
(* SpecExtraction: extract_text_with_ocr applied to every file content and *)
(* every file extension drawn from the sets below.                         *)
(***************************************************************************)
ExtJpgUpper == <<".", "J", "P", "G">>

\* None stands for a caller that passes no extension
Extensions ==
    {ExtPdf, ExtJpg, ExtJpgUpper, ExtJpeg, ExtPng, ExtTiff, ExtBmp, ExtDocx, ExtTxt,
     << >>, NoneStr}

ExtractionImages ==
    { NoImage,
      [NoImage EXCEPT !.image_ok = TRUE],
      [NoImage EXCEPT !.image_ok = TRUE, !.tokens = <<0, -1>>],
      [NoImage EXCEPT !.image_ok = TRUE, !.tokens = <<90>>],
      [NoImage EXCEPT !.image_ok = TRUE, !.tokens = <<40, -1, 95>>] }

ExtractionFiles ==
    { File(e, n, i, f) :
         e \in Extensions, n \in {0, PdfTextMinimum, PdfTextMinimum + 1},
         i \in ExtractionImages, f \in {FieldsGood, EmptyDict} }

InitExtraction ==
    /\ \E f \in ExtractionFiles : args = [file |-> f, file_extension |-> f.extension]
    /\ clock = Today
    /\ extracted = NotRun
    /\ results = AllNotRun
    /\ decision = NoDecision
    /\ previous = NoDecision
    /\ NoRequest
    /\ pc = "call"

CallExtract ==
    /\ pc = "call"
    /\ extracted' = extract_text_with_ocr(args.file, args.file_extension)
    /\ pc' = "returned"
    /\ UNCHANGED <<args, clock, results, decision, previous, endpoint>>

NextExtraction == CallExtract

SpecExtraction == InitExtraction /\ [][NextExtraction]_vars

(***************************************************************************)
(* SpecAuthenticity: verify_document_authenticity applied to every file    *)
(* and extraction result drawn from the sets below.                        *)
(***************************************************************************)
AuthenticityImages ==
    { NoImage }
    \cup [image_ok : {TRUE}, tokens : {<<90>>}, stamp : BOOLEAN, signature : BOOLEAN,
          quality : {0, Pct(LowImageQuality - 1), Pct(LowImageQuality), Scale}]

AuthenticityFiles ==
    { File(e, 0, i, EmptyDict) :
         e \in {ExtJpg, ExtJpgUpper, ExtJpeg, ExtPng, ExtTiff, ExtPdf},
         i \in AuthenticityImages }

AuthenticityExtractions ==
    { EmptyDict }
    \cup { [confidence |-> c] :
              c \in {0, Pct(LowOcrConfidence - 1), Pct(LowOcrConfidence),
                     2 * (Scale \div 3), Scale} }

InitAuthenticity ==
    /\ \E f \in AuthenticityFiles : args = [file |-> f, file_extension |-> f.extension]
    /\ extracted \in AuthenticityExtractions
    /\ clock = Today
    /\ results = AllNotRun
    /\ decision = NoDecision
    /\ previous = NoDecision
    /\ NoRequest
    /\ pc = "call"

CallVerifyAuthenticity ==
    /\ pc = "call"
    /\ results' = [results EXCEPT
                     !["authenticity"] =
                        verify_document_authenticity(args.file, args.file_extension,
                                                     extracted)]
    /\ pc' = "returned"
    /\ UNCHANGED <<args, clock, extracted, decision, previous, endpoint>>

NextAuthenticity == CallVerifyAuthenticity

SpecAuthenticity == InitAuthenticity /\ [][NextAuthenticity]_vars

(***************************************************************************)
(* SpecRerun: the same run performed twice on the same inputs while the    *)
(* system clock, which the checks read themselves, moves on.               *)
(***************************************************************************)
MaxTicks == 2

GoodImage == [image_ok |-> TRUE, tokens |-> <<90>>, stamp |-> TRUE,
              signature |-> TRUE, quality |-> Scale]

\* a stamped, unsigned, sharp image that OCR reads with confidence 0.45
FaintImage == [GoodImage EXCEPT !.tokens = <<45>>, !.signature = FALSE]

RerunFiles ==
    { File(ExtJpg, 0, i, f) :
         i \in {GoodImage, FaintImage},
         f \in { FieldsGood,
                 [FieldsGood EXCEPT !.dates = <<DatePast, DateFuture>>],
                 [FieldsGood EXCEPT !.dates = <<DateFutureDashed>>] } }

RerunArgs ==
    { [file |-> f, user_data |-> u, scholarship_requirements |-> q,
       uploaded_documents |-> Uploads(<<TypeGradeUpper>>),
       required_documents |-> <<TypeGrade>>,
       document_history |-> << >>] :
        f \in RerunFiles, u \in PipelineUsers, q \in PipelineRequirements }

InitRerun ==
    /\ args \in RerunArgs
    /\ clock = Today
    /\ previous = NoDecision
    /\ NoRequest
    /\ RunStart

\* time passes: the next datetime.now() returns a later instant
Tick ==
    /\ clock < Today + MaxTicks
    /\ clock' = clock + 1
    /\ UNCHANGED <<args, extracted, results, decision, previous, endpoint, pc>>

\* the caller runs the verification again with the arguments of the first run
Rerun ==
    /\ pc = "decided"
    /\ previous = NoDecision
    /\ previous' = decision
    /\ extracted' = NotRun
    /\ results' = AllNotRun
    /\ decision' = NoDecision
    /\ pc' = "extract"
    /\ UNCHANGED <<args, clock, endpoint>>

NextRerun ==
    \/ RunStep
    \/ Tick
    \/ Rerun

SpecRerun == InitRerun /\ [][NextRerun]_vars

(***************************************************************************)
(* verify_scholarship_request                                              *)
(*                                                                         *)
(* A document row is kept as its id, its filename, whether open() on its   *)
(* file_path succeeds, what the libraries find in the file, and its        *)
(* document_type.  get_current_user returns the token payload, a dict; the *)
(* handler also reads attributes of it, which a payload does not have.     *)
(***************************************************************************)
AllEmpty == [k \in CheckNames |-> EmptyDict]

\* s.rsplit('.', 1)[-1]
rsplit_last(s) ==
    LET dots == {n \in DOMAIN s : s[n] = "."}
    IN  IF dots = {} THEN s
        ELSE SubSeq(s, (CHOOSE n \in dots : \A m \in dots : m <= n) + 1, Len(s))

document_extension(filename) == <<".">> \o lower(rsplit_last(filename))

AdminRoles == {"admin", "super_admin"}

has_attributes(current_user) ==
    {"full_name", "student_id", "department", "email"} \subseteq DOMAIN current_user

request_user_data(current_user) ==
    [full_name |-> current_user.full_name,
     student_id |-> current_user.student_id,
     department |-> current_user.department]

endpoint_requirements == [min_grade |-> MinGrade, max_income |-> MaxIncome]

\* the endpoint keeps the incoming result when it has no result yet or the
\* incoming confidence is strictly lower
worse(current, check) ==
    IF current = EmptyDict
          \/ Get(check, "confidence", 0) < Get(current, "confidence", Scale)
    THEN check
    ELSE current

document_analysis(doc, user_data) ==
    LET file_extension == document_extension(doc.filename)
        extracted_data == extract_text_with_ocr(doc.file, file_extension)
    IN  [document_id |-> doc.id,
         document_name |-> doc.filename,
         document_type |-> doc.document_type,
         extracted_data |-> extracted_data,
         identity |-> verify_identity(extracted_data, user_data),
         authenticity |-> verify_document_authenticity(doc.file, file_extension,
                                                       extracted_data)]

document_failure(doc) ==
    [document_id |-> doc.id, document_name |-> doc.filename,
     error |-> <<"No such file or directory">>]

next_actions(action) ==
    IF action = "approve"
    THEN <<"Send approval notification to student",
           "Process scholarship disbursement",
           "Update request status to approved">>
    ELSE IF action = "reject"
    THEN <<"Send rejection notification with reasons",
           "Allow resubmission with corrections",
           "Update request status to rejected">>
    ELSE <<"Assign to admin reviewer",
           "Notify admin of review priority",
           "Highlight specific issues for manual check">>

generate_verification_report(all_results, the_decision, now) ==
    [generated_at |-> now,
     overall_status |-> Get(the_decision, "action", "pending"),
     confidence_score |-> Get(the_decision, "confidence", 0),
     summary |-> [k \in DOMAIN all_results |->
                     [status |-> Get(all_results[k], "status", "unknown"),
                      confidence |-> Get(all_results[k], "confidence", 0),
                      issues_count |-> Len(Get(all_results[k], "issues", << >>))]],
     details |-> all_results,
     recommendation |-> Get(the_decision, "reason", << >>),
     next_actions |-> next_actions(the_decision.action)]

\* a plausible slip: the branch for reject left out
status_for_without_reject(action) ==
    IF action = "approve" THEN "approved"
    ELSE "under_review"

status_for(action) ==
    IF action = "approve" THEN "approved"
    ELSE IF action = "reject" THEN "rejected"
    ELSE "under_review"

http_error(code) == [status_code |-> code]

\* raise HTTPException(...): the handler ends, nothing is committed
Raise(code) ==
    /\ response' = http_error(code)
    /\ pc' = "responded"

\* lines 264-295: the request, the access check, the documents
Authorize ==
    /\ pc = "received"
    /\ IF args.request = None
       THEN Raise(404) /\ UNCHANGED results
       ELSE IF /\ args.request.user_id # Get(args.current_user, "sub", "None")
               /\ Get(args.current_user, "role", "None") \notin AdminRoles
       THEN Raise(403) /\ UNCHANGED results
       ELSE IF args.documents = << >>
       THEN Raise(400) /\ UNCHANGED results
       ELSE /\ results' = AllEmpty
            /\ pc' = "user_data"
            /\ UNCHANGED response
    /\ UNCHANGED <<args, clock, extracted, decision, previous,
                   document_analyses, request_status, standalone, simple>>

\* lines 296-305: user_data is read from attributes of current_user
ReadUser ==
    /\ pc = "user_data"
    /\ IF has_attributes(args.current_user)
       THEN pc' = "documents" /\ UNCHANGED response
       ELSE Raise(500)
    /\ UNCHANGED <<args, clock, extracted, results, decision, previous,
                   document_analyses, request_status, standalone, simple>>

\* lines 306-350: one turn of the loop over the documents
ProcessDocument ==
    /\ pc = "documents"
    /\ LET n         == Len(document_analyses) + 1
           doc       == args.documents[n]
           analysis  == document_analysis(doc, request_user_data(args.current_user))
       IN  /\ IF doc.readable
              THEN /\ document_analyses' = Append(document_analyses, analysis)
                   /\ results' =
                        [results EXCEPT
                           !["identity"] = worse(@, analysis.identity),
                           !["authenticity"] = worse(@, analysis.authenticity)]
              ELSE /\ document_analyses' = Append(document_analyses, document_failure(doc))
                   /\ UNCHANGED results
           /\ pc' = IF n = Len(args.documents) THEN "validity" ELSE "documents"
    /\ UNCHANGED <<args, clock, extracted, decision, previous,
                   request_status, response, standalone, simple>>

\* lines 352-364
RequestValidity ==
    /\ pc = "validity"
    /\ IF document_analyses # << >> /\ "extracted_data" \in DOMAIN document_analyses[1]
       THEN results' =
              [results EXCEPT
                 !["validity"] = verify_data_validity(document_analyses[1].extracted_data,
                                                      endpoint_requirements, clock)]
       ELSE UNCHANGED results
    /\ pc' = "completeness"
    /\ UNCHANGED <<args, clock, extracted, decision, previous, endpoint>>

\* lines 366-382
RequestCompleteness ==
    /\ pc = "completeness"
    /\ results' =
         [results EXCEPT
            !["completeness"] =
               check_completeness(
                  [n \in DOMAIN args.documents |->
                      [document_type |-> args.documents[n].document_type]],
                  RequiredDocuments)]
    /\ pc' = "fraud"
    /\ UNCHANGED <<args, clock, extracted, decision, previous, endpoint>>

\* lines 384-391: document_analyses[0]['extracted_data'] raises KeyError
\* when the first entry records a failure
RequestFraud ==
    /\ pc = "fraud"
    /\ IF document_analyses # << >> /\ "extracted_data" \notin DOMAIN document_analyses[1]
       THEN Raise(500) /\ UNCHANGED results
       ELSE /\ results' =
                 [results EXCEPT
                    !["fraud"] =
                       ai_fraud_detection(
                          IF document_analyses = << >> THEN EmptyDict
                          ELSE document_analyses[1].extracted_data,
                          << >>, clock)]
            /\ pc' = "decide"
            /\ UNCHANGED response
    /\ UNCHANGED <<args, clock, extracted, decision, previous,
                   document_analyses, request_status, standalone, simple>>

\* lines 393-394
RequestDecide ==
    /\ pc = "decide"
    /\ decision' = auto_decision(results)
    /\ pc' = "report"
    /\ UNCHANGED <<args, clock, extracted, results, previous, endpoint>>

\* lines 396-427: the report, the status update, the commit, the response
Respond ==
    /\ pc = "report"
    /\ request_status' = status_for(decision.action)
    /\ response' =
         [status_code |-> 200,
          status |-> status_for(decision.action),
          confidence |-> Get(decision, "confidence", 0),
          decision |-> decision,
          verification_results |-> results,
          document_analyses |-> document_analyses,
          report |-> generate_verification_report(results, decision, clock)]
    /\ pc' = "responded"
    /\ UNCHANGED <<args, clock, extracted, results, decision, previous,
                   document_analyses, standalone, simple>>

(***************************************************************************)
(* SpecRequest: verify_scholarship_request serving one call, for every     *)
(* request, caller and list of documents drawn from the sets below.        *)
(***************************************************************************)
MaxDocuments == 3

DocumentKinds ==
    { [filename |-> <<"a", ".", "j", "p", "g">>, readable |-> TRUE,
       file |-> File(ExtJpg, 0, GoodImage, FieldsGood)],
      [filename |-> <<"b", ".", "j", "p", "g">>, readable |-> TRUE,
       file |-> File(ExtJpg, 0, GoodImage,
                     [FieldsGood EXCEPT !.grade = Grade65,
                                        !.amounts = <<Amount5000, Amount700000>>])],
      [filename |-> <<"c", ".", "P", "N", "G">>, readable |-> TRUE,
       file |-> File(ExtPng, 0, FaintImage, [name |-> NameAsha])],
      [filename |-> <<"d", ".", "p", "d", "f">>, readable |-> TRUE,
       file |-> File(ExtPdf, PdfTextMinimum + 1, NoImage,
                     [FieldsGood EXCEPT !.dates = <<DatePast, DateFuture>>])],
      [filename |-> <<"s", "c", "a", "n">>, readable |-> TRUE,
       file |-> File(<<".", "s", "c", "a", "n">>, PdfTextMinimum, NoImage, FieldsGood)],
      [filename |-> <<"e", ".", "j", "p", "g">>, readable |-> FALSE,
       file |-> File(ExtJpg, 0, GoodImage, FieldsGood)] }

\* the rows of a request: ids by position; document types either the
\* required types in turn or the same type for every row
Documents(kinds, typing) ==
    [n \in DOMAIN kinds |->
        kinds[n] @@
        [id |-> n,
         document_type |-> IF typing = "distinct"
                           THEN RequiredDocuments[((n - 1) % Len(RequiredDocuments)) + 1]
                           ELSE TypeGrade]]

RequestDocuments ==
    { Documents(kinds, typing) :
         kinds \in UNION { [1..m -> DocumentKinds] : m \in 0..MaxDocuments },
         typing \in {"distinct", "same"} }

\* current_user: the token payload, or a payload that also carries the
\* attributes the handler reads
CurrentUsers ==
    { [sub |-> "u1", role |-> "student"],
      [sub |-> "u9", role |-> "admin"],
      [sub |-> "u1", role |-> "student", full_name |-> NameAshaR,
       student_id |-> IdS1, department |-> DeptCS, email |-> NoneStr],
      [sub |-> "u9", full_name |-> NameAshaB,
       student_id |-> NoneStr, department |-> NoneStr, email |-> NoneStr] }

Requests ==
    { None,
      [user_id |-> "u1", status |-> "submitted"],
      [user_id |-> "u9", status |-> "under_review"] }

RequestArgs ==
    { [request |-> r, current_user |-> u, documents |-> d] :
         r \in Requests, u \in CurrentUsers, d \in RequestDocuments }

InitRequest ==
    /\ args \in RequestArgs
    /\ clock = Today
    /\ extracted = NotRun
    /\ results = AllNotRun
    /\ decision = NoDecision
    /\ previous = NoDecision
    /\ document_analyses = << >>
    /\ request_status = IF args.request = None THEN "none" ELSE args.request.status
    /\ response = NoResponse
    /\ NoApplications
    /\ NoUploads
    /\ pc = "received"

NextRequest ==
    \/ Authorize
    \/ ReadUser
    \/ ProcessDocument
    \/ RequestValidity
    \/ RequestCompleteness
    \/ RequestFraud
    \/ RequestDecide
    \/ Respond

SpecRequest == InitRequest /\ [][NextRequest]_vars

(***************************************************************************)
(* The standalone module (scholarship_module/backend/main.py)              *)
(***************************************************************************)
\* bounds of the exploration: applications submitted, documents per application
MaxApplications == 1
MaxApplicationDocuments == 2

AutoApproved == 85
ManualReview == 60

\* sum(...) / len(...)
Mean(s) == SeqSum(s) \div Len(s)

\* every handler's body is "try: ... except Exception as e: raise
\* HTTPException(status_code=500, ...)", with no clause that lets an
\* HTTPException through: an HTTPException raised in the body is an
\* Exception, so the handler answers 500 whatever code was raised
standalone_raise(status_code) == http_error(500)

new_application(application_id, form) ==
    [id |-> application_id,
     full_name |-> form.full_name,
     student_id |-> form.student_id,
     email |-> form.email,
     department |-> form.department,
     status |-> "pending",
     documents |-> << >>,
     verification_results |-> None]

document_info(application, document_type, upload, now) ==
    LET file_extension == document_extension(upload.filename)
        extracted_data == extract_text_with_ocr(upload.file, file_extension)
        user_data == [full_name |-> application.full_name,
                      student_id |-> application.student_id,
                      department |-> application.department,
                      email |-> application.email]
    IN  [filename |-> upload.filename,
         document_type |-> document_type,
         extraction |-> [method |-> extracted_data.method,
                         confidence |-> extracted_data.confidence,
                         text_length |-> extracted_data.text_len,
                         structured_data |-> extracted_data.structured_data],
         verification |->
            [identity |-> verify_identity(extracted_data, user_data),
             authenticity |-> verify_document_authenticity(upload.file, file_extension,
                                                           extracted_data),
             data_validity |-> verify_data_validity(extracted_data, EmptyDict, now)]]

\* a plausible slip: approval granted from the review threshold
standalone_decision_from_review(overall_confidence) ==
    IF overall_confidence >= Pct(ManualReview) THEN "auto_approved"
    ELSE "auto_rejected"

standalone_decision(overall_confidence) ==
    IF overall_confidence >= Pct(AutoApproved) THEN "auto_approved"
    ELSE IF overall_confidence >= Pct(ManualReview) THEN "manual_review"
    ELSE "auto_rejected"

verification_report(application) ==
    LET docs == application.documents
        identity_score ==
            Mean([n \in DOMAIN docs |-> docs[n].verification.identity.confidence])
        authenticity_score ==
            Mean([n \in DOMAIN docs |-> docs[n].verification.authenticity.confidence])
        data_score ==
            Mean([n \in DOMAIN docs |-> docs[n].verification.data_validity.confidence])
        overall_confidence == (identity_score + authenticity_score + data_score) \div 3
    IN  [overall_confidence |-> overall_confidence,
         identity_score |-> identity_score,
         authenticity_score |-> authenticity_score,
         data_validity_score |-> data_score,
         decision |-> standalone_decision(overall_confidence),
         documents_verified |-> Len(docs)]

Served(op, application_id) ==
    /\ args' = [op |-> op, application_id |-> application_id]
    /\ pc' = "served"
    /\ UNCHANGED <<clock, extracted, results, decision, previous,
                   document_analyses, request_status, simple>>

\* POST /api/submit-application
submit_application(form) ==
    /\ application_counter <= MaxApplications
    /\ applications_db' =
          (application_counter :> new_application(application_counter, form))
             @@ applications_db
    /\ application_counter' = application_counter + 1
    /\ response' = [status_code |-> 201, application_id |-> application_counter,
                    status |-> "pending"]
    /\ Served("submit_application", application_counter)

\* POST /api/upload-document/{application_id}
upload_document(application_id, document_type, upload) ==
    /\ IF application_id \notin DOMAIN applications_db
       THEN /\ response' = standalone_raise(404)
            /\ UNCHANGED applications_db
       ELSE LET application == applications_db[application_id]
                info == document_info(application, document_type, upload, clock)
            IN  /\ Len(application.documents) < MaxApplicationDocuments
                /\ applications_db' =
                      [applications_db EXCEPT ![application_id].documents =
                          Append(@, info)]
                /\ response' = [status_code |-> 200,
                                application_id |-> application_id,
                                document |-> info]
    /\ UNCHANGED application_counter
    /\ Served("upload_document", application_id)

\* POST /api/verify-application/{application_id}
verify_application(application_id) ==
    /\ IF application_id \notin DOMAIN applications_db
       THEN /\ response' = standalone_raise(404)
            /\ UNCHANGED applications_db
       ELSE IF applications_db[application_id].documents = << >>
       THEN /\ response' = standalone_raise(400)
            /\ UNCHANGED applications_db
       ELSE LET report == verification_report(applications_db[application_id])
            IN  /\ applications_db' =
                      [applications_db EXCEPT
                          ![application_id].status = report.decision,
                          ![application_id].verification_results = report]
                /\ response' = [status_code |-> 200,
                                application_id |-> application_id,
                                status |-> report.decision,
                                confidence |-> report.overall_confidence]
    /\ UNCHANGED application_counter
    /\ Served("verify_application", application_id)

\* GET /api/application/{application_id}
get_application(application_id) ==
    /\ IF application_id \notin DOMAIN applications_db
       THEN response' = standalone_raise(404)
       ELSE response' = [status_code |-> 200,
                         content |-> applications_db[application_id]]
    /\ UNCHANGED standalone
    /\ Served("get_application", application_id)

\* GET /api/applications
get_all_applications ==
    /\ response' = [status_code |-> 200,
                    applications |-> DOMAIN applications_db]
    /\ UNCHANGED standalone
    /\ Served("get_all_applications", 0)

\* GET /api/applications/pending-review
get_pending_reviews ==
    /\ response' = [status_code |-> 200,
                    applications |-> {n \in DOMAIN applications_db :
                                         applications_db[n].status = "manual_review"}]
    /\ UNCHANGED standalone
    /\ Served("get_pending_reviews", 0)

\* POST /api/admin-review
submit_admin_review(review) ==
    /\ IF review.application_id \notin DOMAIN applications_db
       THEN /\ response' = standalone_raise(404)
            /\ UNCHANGED applications_db
       ELSE /\ applications_db' =
                  [n \in DOMAIN applications_db |->
                      IF n = review.application_id
                      THEN [admin_comments |-> review.comments,
                            status |-> review.decision] @@ applications_db[n]
                      ELSE applications_db[n]]
            /\ response' = [status_code |-> 200,
                            application_id |-> review.application_id,
                            decision |-> review.decision]
    /\ UNCHANGED application_counter
    /\ Served("submit_admin_review", review.application_id)

(***************************************************************************)
(* SpecStandalone: the standalone module serving requests one at a time    *)
(***************************************************************************)
ApplicationIds == 1..(MaxApplications + 1)

Forms ==
    { [full_name |-> NameAshaR, student_id |-> IdS1, email |-> NoneStr,
       department |-> DeptCS] }

StandaloneUploads ==
    { [filename |-> <<"b", ".", "j", "p", "g">>,
       file |-> File(ExtJpg, 0, GoodImage, FieldsGood)],
      [filename |-> <<"d", ".", "p", "d", "f">>,
       file |-> File(ExtPdf, PdfTextMinimum + 1, NoImage, [name |-> NameAshaB])] }

Reviews ==
    [application_id : ApplicationIds, decision : {"approved", "rejected"},
     comments : {<<"o", "k">>}]

InitStandalone ==
    /\ args = NoArgs
    /\ clock = Today
    /\ extracted = NotRun
    /\ results = AllNotRun
    /\ decision = NoDecision
    /\ previous = NoDecision
    /\ NoRequest
    /\ pc = "serving"

NextStandalone ==
    \/ \E form \in Forms : submit_application(form)
    \/ \E application_id \in ApplicationIds, upload \in StandaloneUploads :
          upload_document(application_id, TypeGrade, upload)
    \/ \E application_id \in ApplicationIds : verify_application(application_id)
    \/ \E application_id \in ApplicationIds : get_application(application_id)
    \/ get_all_applications
    \/ get_pending_reviews
    \/ \E review \in Reviews : submit_admin_review(review)

SpecStandalone == InitStandalone /\ [][NextStandalone]_vars

(***************************************************************************)
(* The simple endpoint (endpoints/scholarship_verification_simple.py)      *)
(*                                                                         *)
(* The nullable column verification_score is kept as a sequence: << >> for *)
(* NULL, <<x>> for the value x.                                            *)
(***************************************************************************)
\* bound of the exploration: documents uploaded for the request
MaxSimpleUploads == 3

SimpleVerified == 70

\* os.path.splitext(filename)[1]
splitext_extension(filename) ==
    LET dots == {n \in DOMAIN filename : filename[n] = "."}
    IN  IF dots = {} THEN << >>
        ELSE SubSeq(filename, CHOOSE n \in dots : \A m \in dots : m <= n, Len(filename))

\* (identity_confidence + authenticity_confidence) / 2
simple_overall_confidence(content, file_extension, application_data) ==
    LET extracted_data == extract_text_with_ocr(content, file_extension)
        identity_check == verify_identity(extracted_data, application_data)
        authenticity_check ==
            verify_document_authenticity(content, file_extension, extracted_data)
    IN  (Get(identity_check, "confidence", 0)
            + Get(authenticity_check, "confidence", 0)) \div 2

\* document.is_verified = overall_confidence >= 0.7
simple_is_verified(overall_confidence) ==
    overall_confidence >= Pct(SimpleVerified)

\* lines 227-233: the first score is the confidence itself, every later one
\* the mean of the stored score and the new confidence
updated_verification_score(verification_score, overall_confidence) ==
    IF verification_score = << >>
    THEN <<overall_confidence>>
    ELSE <<(verification_score[1] + overall_confidence) \div 2>>

SimpleServed(op) ==
    /\ pc' = "served"
    /\ UNCHANGED <<clock, extracted, results, decision, previous,
                   document_analyses, request_status, standalone>>

\* POST /submit
simple_submit_application(user_id, data) ==
    /\ service_request = None
    /\ service_request' =
          [user_id |-> user_id,
           status |-> "submitted",
           request_data |-> [full_name |-> data.full_name, email |-> data.email],
           verification_score |-> << >>]
    /\ response' = [status_code |-> 200, success |-> TRUE]
    /\ args' = [op |-> "submit", user_id |-> user_id]
    /\ UNCHANGED documents
    /\ SimpleServed("submit")

\* POST /upload/{request_id}
simple_upload_document(user_id, document_type, upload) ==
    /\ args' = [op |-> "upload", user_id |-> user_id, document_type |-> document_type,
                filename |-> upload.filename]
    /\ IF service_request = None \/ service_request.user_id # user_id
       THEN /\ response' = http_error(404)
            /\ UNCHANGED simple
       ELSE LET file_extension == splitext_extension(upload.filename)
                application_data == service_request.request_data
                overall_confidence ==
                    simple_overall_confidence(upload.file, file_extension,
                                              application_data)
                is_verified == simple_is_verified(overall_confidence)
                previous_results ==
                    Get(application_data, "verification_results", EmptyDict)
                verification_results ==
                    (document_type :>
                        [document_id |-> Len(documents) + 1,
                         overall_confidence |-> overall_confidence])
                    @@ previous_results
            IN  /\ Len(documents) < MaxSimpleUploads
                /\ documents' =
                      Append(documents,
                             [id |-> Len(documents) + 1,
                              document_type |-> document_type,
                              original_filename |-> upload.filename,
                              content |-> upload.file,
                              is_verified |-> is_verified])
                /\ service_request' =
                      [service_request EXCEPT
                          !.request_data =
                              ("verification_results" :> verification_results) @@ @,
                          !.verification_score =
                              updated_verification_score(@, overall_confidence)]
                /\ response' =
                      [status_code |-> 200, success |-> TRUE,
                       document_id |-> Len(documents) + 1,
                       verification_status |->
                          IF is_verified THEN "verified" ELSE "pending_review"]
    /\ SimpleServed("upload")

(***************************************************************************)
(* SpecSimple: one application of the simple endpoint and its uploads      *)
(***************************************************************************)
SimpleUsers == {"u1", "u2"}

SimpleApplications == { [full_name |-> NameAshaR, email |-> NoneStr] }

SimpleDocumentTypes == {"grade", "income"}

\* overall confidences 0.985, 0.7 and 0.1425
SimpleUploads ==
    { [filename |-> <<"a", ".", "j", "p", "g">>,
       file |-> File(ExtJpg, 0, GoodImage, FieldsGood)],
      [filename |-> <<"b", ".", "j", "p", "g">>,
       file |-> File(ExtJpg, 0, [GoodImage EXCEPT !.tokens = <<100>>, !.stamp = FALSE,
                                                  !.quality = Pct(50)],
                     [name |-> NameAshaR])],
      [filename |-> <<"d", ".", "p", "d", "f">>,
       file |-> File(ExtPdf, PdfTextMinimum + 1, NoImage, [name |-> NameAshaB])] }

InitSimple ==
    /\ args = NoArgs
    /\ clock = Today
    /\ extracted = NotRun
    /\ results = AllNotRun
    /\ decision = NoDecision
    /\ previous = NoDecision
    /\ NoRequest
    /\ pc = "serving"

NextSimple ==
    \/ \E user_id \in SimpleUsers, data \in SimpleApplications :
          simple_submit_application(user_id, data)
    \/ \E user_id \in SimpleUsers, document_type \in SimpleDocumentTypes,
          upload \in SimpleUploads :
             simple_upload_document(user_id, document_type, upload)

SpecSimple == InitSimple /\ [][NextSimple]_vars

(***************************************************************************)
(* Properties                                                              *)
(***************************************************************************)
Range(seq) == {seq[n] : n \in DOMAIN seq}

AllDicts == \A k \in CheckNames : ~IsNone(results[k])

\* the five critical conditions: check, key, value, entry of the reason
CriticalConditions ==
    { <<"identity", "status", "failed", "Identity verification failed">>,
      <<"authenticity", "status", "suspicious", "Document authenticity suspicious">>,
      <<"validity", "status", "invalid", "Eligibility criteria not met">>,
      <<"completeness", "status", "incomplete", "Required documents missing">>,
      <<"fraud", "risk_level", "high", "High fraud risk detected">> }

Triggered(all) == {c \in CriticalConditions : Get(all[c[1]], c[2], "") = c[3]}

\* C1: whenever at least one critical condition holds for the five results,
\* the decision is reject / manual review / high priority whatever the
\* weighted confidence, and the reason has exactly one entry per triggered
\* condition and none for an untriggered one.
C1_CriticalShortCircuit ==
    (pc = "decided" /\ AllDicts /\ Triggered(results) # {}) =>
        /\ decision.action = "reject"
        /\ decision.requires_manual_review = TRUE
        /\ decision.review_priority = "high"
        /\ Range(decision.reason) = {c[4] : c \in Triggered(results)}
        /\ Len(decision.reason) = Cardinality(Triggered(results))

\* a single critical condition in a run whose weighted confidence is >= 0.8
C1_Witness ==
    /\ pc = "decided" /\ AllDicts
    /\ Cardinality(Triggered(results)) = 1
    /\ decision.confidence >= Pct(80)
    /\ decision.action = "reject"

\* 100 * w, from the weights the claim states
ClaimedWeighted100(all) ==
      25 * all["identity"].confidence + 20 * all["authenticity"].confidence
    + 25 * all["validity"].confidence + 15 * all["completeness"].confidence
    + 15 * all["fraud"].confidence

\* C2: with no critical condition, the decision's confidence is the weighted
\* sum w (weights 0.25, 0.20, 0.25, 0.15, 0.15) and the action is approve iff
\* w >= 0.8, review/medium iff 0.6 <= w < 0.8, review/high iff w < 0.6.
C2_WeightedBands ==
    (pc = "decided" /\ AllDicts /\ Triggered(results) = {}) =>
        LET w100 == ClaimedWeighted100(results)
        IN  /\ 100 * decision.confidence = w100
            /\ decision.action \in {"approve", "review"}
            /\ decision.action = "approve" <=> w100 >= 80 * Scale
            /\ (decision.action = "review" /\ decision.review_priority = "medium")
                  <=> (60 * Scale <= w100 /\ w100 < 80 * Scale)
            /\ (decision.action = "review" /\ decision.review_priority = "high")
                  <=> w100 < 60 * Scale

\* the boundary w = 0.8 exactly is approved, with results that are not all equal
C2_Witness ==
    /\ pc = "decided" /\ AllDicts /\ Triggered(results) = {}
    /\ ClaimedWeighted100(results) = 80 * Scale
    /\ results["identity"].confidence # results["authenticity"].confidence
    /\ decision.action = "approve"

\* the boundary w = 0.6 exactly is review with priority medium
C2_WitnessLower ==
    /\ pc = "decided" /\ AllDicts /\ Triggered(results) = {}
    /\ ClaimedWeighted100(results) = 60 * Scale
    /\ decision.review_priority = "medium"

\* C3: when aggregation raises inside auto_decision the caller still gets a
\* decision, and it is error / manual review / urgent, never approve.
C3_FailSafe ==
    (pc = "decided" /\ ~AllDicts) =>
        /\ decision.action = "error"
        /\ decision.action # "approve"
        /\ decision.requires_manual_review = TRUE
        /\ decision.review_priority = "urgent"

\* a result that is not a dict while the other four are perfect
C3_Witness ==
    /\ pc = "decided"
    /\ IsNone(results["authenticity"])
    /\ \A k \in CheckNames \ {"authenticity"} :
          ~IsNone(results[k]) /\ results[k].confidence = Scale
    /\ decision.action = "error"

\* the structured fields and subject record of the identity call
IdDoc == extracted.structured_data
IdUser == args.user_data

IdComparable ==
    {f \in {"name", "student_id", "department"} :
        f \in DOMAIN IdDoc /\ UserKey(f) \in DOMAIN IdUser}

\* every subject value that gets compared is a string
IdWellTyped == \A f \in IdComparable : IdUser[UserKey(f)] # NoneStr

\* C10: verify_identity files every field present on both sides under matches
\* or mismatches, returns confidence |matches| / (|matches| + |mismatches|)
\* (0 when nothing is comparable), status verified iff confidence >= 0.8,
\* review_required iff 0.5 <= confidence < 0.8 and failed otherwise; three
\* fields identical to the subject give verified with confidence 1.0.
C10_IdentityConfidence ==
    (pc = "returned" /\ IdWellTyped) =>
        LET r  == results["identity"]
            nm == Cardinality(r.matches)
            nx == Cardinality(r.mismatches)
        IN  /\ {d.field : d \in r.matches} \cup {d.field : d \in r.mismatches}
                  = IdComparable
            /\ {d.field : d \in r.matches} \cap {d.field : d \in r.mismatches} = {}
            /\ nm + nx = Cardinality(IdComparable)
            /\ r.confidence * (nm + nx) = nm * Scale
            /\ (nm + nx = 0) => (r.confidence = 0 /\ r.status = "failed")
            /\ r.status = "verified" <=> 10 * r.confidence >= 8 * Scale
            /\ r.status = "review_required"
                  <=> (10 * r.confidence >= 5 * Scale /\ 10 * r.confidence < 8 * Scale)
            /\ r.status = "failed" <=> 10 * r.confidence < 5 * Scale
            /\ (/\ IdComparable = {"name", "student_id", "department"}
                /\ \A f \in IdComparable : IdDoc[f] = IdUser[UserKey(f)])
                  => (r.status = "verified" /\ r.confidence = Scale)

\* two of three compared fields match: confidence 2/3, review_required
C10_Witness ==
    /\ pc = "returned" /\ IdWellTyped
    /\ Cardinality(results["identity"].matches) = 2
    /\ Cardinality(results["identity"].mismatches) = 1
    /\ results["identity"].status = "review_required"

\* three fields identical to the subject record
C10_WitnessFullMatch ==
    /\ pc = "returned"
    /\ IdComparable = {"name", "student_id", "department"}
    /\ \A f \in IdComparable : IdDoc[f] = IdUser[UserKey(f)]
    /\ results["identity"].status = "verified"

\* the current extraction carries name, student_id and grade, and entry n of
\* the history carries the same three values up to letter case
SameTriple(past) ==
    /\ ~IsNone(past)
    /\ \A k \in {"name", "student_id", "grade"} :
          /\ k \in DOMAIN extracted.structured_data
          /\ k \in DOMAIN past.structured_data
          /\ lower(extracted.structured_data[k]) = lower(past.structured_data[k])

DuplicateFlag == <<"Possible duplicate submission detected">>

\* C9: a history with at least one past document equal to the current one in
\* name, student_id and grade yields a duplicate red flag and risk_level high.
C9_DuplicateIsHighRisk ==
    (/\ pc = "returned"
     /\ results["fraud"].status # "error"
     /\ \E n \in DOMAIN args.document_history : SameTriple(args.document_history[n]))
        => /\ DuplicateFlag \in Range(results["fraud"].red_flags)
           /\ results["fraud"].risk_level = "high"

\* every division the model made came out exact, so that the fixed-point
\* values are the real numbers the formulas denote
ExactArithmetic ==
    /\ (extracted # NotRun /\ extracted.method = "ocr_image" /\ args.file.image_ok) =>
          LET confidences == SelectSeq(args.file.tokens, LAMBDA c : c > 0)
          IN  extracted.confidence * 100 * Len(confidences)
                 = SeqSum(confidences) * Scale
    /\ (results["authenticity"] # NotRun /\ results["authenticity"].status # "error") =>
          LET c == results["authenticity"].checks
          IN  100 * results["authenticity"].confidence
                 =   (IF Get(c, "stamp_detected", FALSE) THEN 30 * Scale ELSE 0)
                   + (IF Get(c, "signature_detected", FALSE) THEN 20 * Scale ELSE 0)
                   + 20 * Get(c, "image_quality", 0) + 30 * c.ocr_confidence
    /\ (results["fraud"] # NotRun /\ results["fraud"].status # "error") =>
          LET f == results["fraud"]
              s200 == 100 * Len(f.red_flags) + 60 * Len(f.anomalies) + 20 * Len(f.warnings)
          IN  200 * f.confidence = IF s200 >= 400 THEN 0 ELSE (400 - s200) * (Scale \div 2)
    /\ (pc = "decided" /\ decision.action \notin {"error"}) =>
          100 * decision.confidence = ClaimedWeighted100(results)

\* the scenario of C4: one document with extraction confidence 0.9, all three
\* identity fields matching, no fraud flag, every required type uploaded
ApproveScenario ==
    /\ pc = "decided"
    /\ extracted.confidence = Pct(90)
    /\ {d.field : d \in results["identity"].matches} = {"name", "student_id", "department"}
    /\ results["identity"].mismatches = {}
    /\ results["fraud"].status # "error"
    /\ results["fraud"].red_flags = << >>
    /\ results["fraud"].anomalies = << >>
    /\ results["fraud"].warnings = << >>
    /\ results["completeness"].status # "error"
    /\ args.required_documents # << >>
    /\ results["completeness"].missing = << >>

\* C4 as stated: in the scenario the weighted confidence is >= 0.8 and the
\* action is approve, whatever the heuristics find and whatever the file type.
C4_EndToEndApprove ==
    ApproveScenario => (decision.confidence >= Pct(80) /\ decision.action = "approve")

\* 100 * the authenticity confidence of the scenario's file, from its inputs
ScenarioAuthenticity100 ==
    IF lower(args.file.extension) \in {ExtJpg, ExtJpeg, lower(ExtPng)}
    THEN   (IF args.file.stamp THEN 30 * Scale ELSE 0)
         + (IF args.file.signature THEN 20 * Scale ELSE 0)
         + 20 * args.file.quality + 30 * Pct(90)
    ELSE 30 * Pct(90)

\* C4 amended: in the scenario, when in addition the validity result has
\* confidence 1.0, the weighted confidence is >= 0.8; the action is approve
\* exactly when the authenticity confidence 0.3*stamp + 0.2*signature +
\* 0.2*quality + 0.27 reaches 0.4, and reject otherwise; a file that is not
\* .jpg/.jpeg/.png has authenticity confidence 0.27 and is rejected.
C4_EndToEndApproveAmended ==
    (ApproveScenario /\ results["validity"].confidence = Scale) =>
        /\ decision.confidence >= Pct(80)
        /\ decision.action = "approve" <=> ScenarioAuthenticity100 >= 40 * Scale
        /\ decision.action = "reject" <=> ScenarioAuthenticity100 < 40 * Scale
        /\ lower(args.file.extension) \notin {ExtJpg, ExtJpeg, lower(ExtPng)}
              => decision.action = "reject"

\* the scenario with a signature but no stamp on a blurred image: approve
C4_Witness ==
    /\ ApproveScenario /\ results["validity"].confidence = Scale
    /\ ~args.file.stamp /\ args.file.signature /\ args.file.quality = 0
    /\ decision.action = "approve"

\* the scenario on a .tiff file: reject
C4_WitnessReject ==
    /\ ApproveScenario /\ results["validity"].confidence = Scale
    /\ args.file.extension = ExtTiff
    /\ decision.action = "reject"

InUnit(c) == 0 <= c /\ c <= Scale

\* C5: the extraction confidence, the confidence of each of the five check
\* results and Decision.confidence all lie in [0,1], error paths included.
C5_ConfidencesInUnitInterval ==
    /\ extracted # NotRun => InUnit(extracted.confidence)
    /\ \A k \in CheckNames : results[k] # NotRun => InUnit(results[k].confidence)
    /\ decision # NoDecision => InUnit(decision.confidence)

\* a decided run in which the OCR confidence is an average below 1, a checker
\* took its error path and the fraud score exceeds 2 (so that it is clamped)
C5_Witness ==
    /\ pc = "decided"
    /\ 0 < extracted.confidence /\ extracted.confidence < Scale
    /\ \E k \in CheckNames : results[k].status = "error"
    /\ Len(results["fraud"].red_flags) = 5
    /\ results["fraud"].confidence = 0
    /\ decision.confidence > 0

\* C6: two runs on identical inputs return an identical Decision (the
\* caller has no argument through which to fix the instant the checks take
\* as "now").
C6_Determinism ==
    (pc = "decided" /\ previous # NoDecision) => decision = previous

\* the rows whose file cannot be read
Unreadable == {n \in DOMAIN args.documents : ~args.documents[n].readable}

\* C7: when the handler has gone through the documents of a request and the
\* file of one of them, at whatever position, cannot be read, the failure is
\* recorded as an entry {document_id, error}, every other document has its
\* analysis, and the response is the Decision with its report, not an error.
C7_FailureIsolation ==
    (pc = "responded" /\ document_analyses # << >> /\ Unreadable # {}) =>
        /\ Len(document_analyses) = Len(args.documents)
        /\ \A n \in DOMAIN args.documents :
              IF n \in Unreadable
              THEN /\ document_analyses[n].document_id = args.documents[n].id
                   /\ "error" \in DOMAIN document_analyses[n]
              ELSE "extracted_data" \in DOMAIN document_analyses[n]
        /\ response.status_code = 200
        /\ response.decision = decision
        /\ decision # NoDecision
        /\ "report" \in DOMAIN response

\* the successfully analysed documents
Analysed == {n \in DOMAIN document_analyses :
                "extracted_data" \in DOMAIN document_analyses[n]}

\* the result of a per-document check on an analysed document
PerDocument(k, n) ==
    LET a == document_analyses[n]
    IN  IF k = "identity" THEN a.identity
        ELSE IF k = "authenticity" THEN a.authenticity
        ELSE IF k = "validity"
        THEN verify_data_validity(a.extracted_data, endpoint_requirements, clock)
        ELSE ai_fraud_detection(a.extracted_data, << >>, clock)

\* C8: the Decision exists only once every document has its entry, and for
\* identity, authenticity, validity and fraud the result auto_decision was
\* given is a result of an analysed document whose confidence no analysed
\* document undercuts.
C8_WorstCaseAggregation ==
    decision # NoDecision =>
        /\ Len(document_analyses) = Len(args.documents)
        /\ \A k \in {"identity", "authenticity", "validity", "fraud"} :
              /\ \E n \in Analysed : results[k] = PerDocument(k, n)
              /\ \A n \in Analysed :
                    results[k].confidence <= PerDocument(k, n).confidence

\* the numeric checks of a validity call, read off its arguments
GradeApplies ==
    /\ "grade" \in DOMAIN extracted.structured_data
    /\ "min_grade" \in DOMAIN args.scholarship_requirements

IncomeApplies ==
    /\ "amounts" \in DOMAIN extracted.structured_data
    /\ "max_income" \in DOMAIN args.scholarship_requirements

NumbersParse ==
    /\ GradeApplies => float(extracted.structured_data.grade).ok
    /\ IncomeApplies =>
          \A n \in DOMAIN extracted.structured_data.amounts :
             float(remove_commas(extracted.structured_data.amounts[n])).ok

GradeMet ==
    float(extracted.structured_data.grade).value
       >= args.scholarship_requirements.min_grade

IncomeMet ==
    \A n \in DOMAIN extracted.structured_data.amounts :
       float(remove_commas(extracted.structured_data.amounts[n])).value
          <= args.scholarship_requirements.max_income

Applicable == (IF GradeApplies THEN 1 ELSE 0) + (IF IncomeApplies THEN 1 ELSE 0)

ChecksMet == (IF GradeApplies /\ GradeMet THEN 1 ELSE 0)
             + (IF IncomeApplies /\ IncomeMet THEN 1 ELSE 0)

\* C11: when the grade and the amounts parse as numbers, the validity
\* confidence is met/applicable over the grade and income checks (0.5 when
\* neither applies); the status is valid iff confidence >= 0.8 with no
\* issue, review_required iff not valid and confidence >= 0.5, invalid
\* otherwise; grade 8.5 against 7.0 with 500000 against 600000 is valid at 1.0.
C11_ValidityConfidence ==
    (pc = "returned" /\ NumbersParse) =>
        LET r == results["validity"]
        IN  /\ IF Applicable > 0
               THEN r.confidence * Applicable = ChecksMet * Scale
               ELSE r.confidence = Pct(50)
            /\ Len(r.issues) = Applicable - ChecksMet
            /\ r.status = "valid" <=> (r.confidence >= Pct(80) /\ r.issues = << >>)
            /\ r.status = "review_required" <=>
                  (r.status # "valid" /\ r.confidence >= Pct(50))
            /\ r.status = "invalid" <=> r.confidence < Pct(50)
            /\ ( /\ GradeApplies /\ IncomeApplies
                 /\ extracted.structured_data.grade = Grade85
                 /\ extracted.structured_data.amounts = <<Amount500000>> )
                  => (r.status = "valid" /\ r.confidence = Scale)

\* the scenario of C11
C11_Witness ==
    /\ pc = "returned"
    /\ GradeApplies /\ IncomeApplies
    /\ extracted.structured_data.grade = Grade85
    /\ extracted.structured_data.amounts = <<Amount500000>>
    /\ results["validity"].status = "valid"

\* one of the two checks met: confidence 0.5 with an issue
C11_WitnessHalf ==
    /\ pc = "returned" /\ NumbersParse
    /\ Applicable = 2 /\ ChecksMet = 1
    /\ results["validity"].status = "review_required"

\* the uploads of a completeness call all carry a string as document_type
TypesAreStrings ==
    \A n \in DOMAIN args.uploaded_documents :
       Get(args.uploaded_documents[n], "document_type", << >>) # NoneStr

\* a required type equals some uploaded type, letter case aside
Uploaded(r) ==
    \E n \in DOMAIN args.uploaded_documents :
       /\ "document_type" \in DOMAIN args.uploaded_documents[n]
       /\ lower(args.uploaded_documents[n].document_type) = lower(r)

CompletenessReturned ==
    /\ pc \in {"decide", "decided"}
    /\ "uploaded_documents" \in DOMAIN args
    /\ TypesAreStrings

\* C12: present and missing are disjoint, together they are exactly the
\* required types, a required type is present iff it equals an uploaded
\* type case-insensitively, confidence is |present| / |required| when
\* something is required, and each missing type has exactly one issue.
C12_CompletenessArithmetic ==
    CompletenessReturned =>
        LET r == results["completeness"]
            required == args.required_documents
        IN  /\ Range(r.present) \cap Range(r.missing) = {}
            /\ Range(r.present) \cup Range(r.missing) = Range(required)
            /\ Len(r.present) + Len(r.missing) = Len(required)
            /\ \A t \in Range(required) : t \in Range(r.present) <=> Uploaded(t)
            /\ required # << >> => r.confidence * Len(required) = Len(r.present) * Scale
            /\ Len(r.issues) = Len(r.missing)
            /\ \A n \in DOMAIN r.missing :
                  r.issues[n] = <<"Missing required document", r.missing[n]>>

\* a call with one required type present under another letter case and
\* another one missing
C12_Witness ==
    /\ CompletenessReturned
    /\ args.required_documents = <<TypeGradeUpper, TypeId>>
    /\ results["completeness"].present = <<TypeGradeUpper>>
    /\ results["completeness"].missing = <<TypeId>>
    /\ results["completeness"].confidence = Pct(50)
    /\ \E n \in DOMAIN args.uploaded_documents :
          args.uploaded_documents[n].document_type = TypeGrade

\* C13: with nothing required the completeness result is complete at 1.0,
\* and the decision is not a rejection.
C13_EmptyRequirementComplete ==
    (CompletenessReturned /\ args.required_documents = << >>) =>
        /\ results["completeness"].confidence = Scale
        /\ results["completeness"].status = "complete"
        /\ pc = "decided" => decision.action # "reject"

\* C14: complete iff confidence = 1.0, mostly_complete iff 0.7 <= confidence
\* < 1.0, incomplete iff confidence < 0.7; 3 of 4 required types give 0.75 and
\* mostly_complete, which auto_decision does not count as a critical issue.
C14_CompletenessThresholds ==
    CompletenessReturned =>
        LET r == results["completeness"]
        IN  /\ r.status = "complete" <=> r.confidence = Scale
            /\ r.status = "mostly_complete" <=>
                  (Pct(70) <= r.confidence /\ r.confidence < Scale)
            /\ r.status = "incomplete" <=> r.confidence < Pct(70)
            /\ (Len(args.required_documents) = 4 /\ Len(r.present) = 3) =>
                  (r.confidence = Pct(75) /\ r.status = "mostly_complete")
            /\ pc = "decided" =>
                  (decision.action = "reject" <=> r.status = "incomplete")

\* three of the four required types uploaded, decided
C14_Witness ==
    /\ CompletenessReturned /\ pc = "decided"
    /\ args.required_documents = RequiredDocuments
    /\ Len(results["completeness"].present) = 3
    /\ results["completeness"].status = "mostly_complete"
    /\ decision.action = "approve"

\* the extension of an extraction call is none of the supported ones
Unsupported ==
    /\ args.file_extension # NoneStr
    /\ lower(args.file_extension) \notin
          {ExtPdf, ExtJpg, ExtJpeg, lower(ExtPng), ExtTiff, ExtBmp, ExtDocx}

\* the call goes to the OCR engine, which fails or detects nothing
OcrFails ==
    /\ args.file_extension # NoneStr
    /\ lower(args.file_extension) \in {ExtJpg, ExtJpeg, lower(ExtPng), ExtTiff, ExtBmp}
    /\ \/ ~args.file.image_ok
       \/ \A n \in DOMAIN args.file.tokens : args.file.tokens[n] <= 0

Degraded(method) ==
    /\ extracted.text_len = 0
    /\ extracted.confidence = 0
    /\ extracted.method = method
    /\ extracted.structured_data = EmptyDict

ExtractionMethods ==
    {"pdf_text_extraction", "ocr_pdf", "ocr_image", "docx_extraction", "error", "none"}

C15_WitnessOcr ==
    /\ pc = "returned" /\ "file_extension" \in DOMAIN args
    /\ args.file_extension = ExtBmp
    /\ ~args.file.image_ok
    /\ Degraded("ocr_image")

\* C16: in the standalone module a lookup of an application id that was
\* never submitted answers 404 and leaves the application store unchanged.
\* The lookup raises HTTPException(404) inside the handler's own
\* "except Exception", which answers 500.
C16_UnknownLookupIs404 ==
    [][(/\ args'.op = "get_application"
        /\ args'.application_id \notin DOMAIN applications_db)
          => (/\ response'.status_code = 404
              /\ applications_db' = applications_db)]_vars

\* the status a check reports when it passed outright
TopStatus ==
    [identity |-> "verified", authenticity |-> "verified", validity |-> "valid",
     completeness |-> "complete", fraud |-> "passed"]

\* C17: whenever auto_decision returns action=approve (with the reason
\* 'All verification checks passed successfully'), each of the five results
\* has its top status; a result with status review_required, mostly_complete
\* or review_recommended never coexists with approve.
C17_ApproveMeansAllPassed ==
    (pc = "decided" /\ decision.action = "approve") =>
        \A k \in CheckNames : Get(results[k], "status", "") = TopStatus[k]

\* C18: if any of the five results given to auto_decision is the result a
\* checker returns from its exception path (status=error), auto_decision
\* does not return action=approve, whatever the other four results are.
C18_FaultNeverApproves ==
    (pc = "decided" /\ \E k \in CheckNames : Get(results[k], "status", "") = "error")
        => decision.action # "approve"

\* the analysed documents whose extension is not .jpg, .jpeg or .png
NonImage ==
    {n \in Analysed :
        document_extension(args.documents[n].filename) \notin HeuristicExtensions}

\* the request-level authenticity result is the result of a non-image document
AuthenticityFromNonImage ==
    \E n \in NonImage : results["authenticity"] = document_analyses[n].authenticity

C19_NonImageRejectsIfDecided ==
    (decision # NoDecision /\ AuthenticityFromNonImage) => decision.action = "reject"

\* the issue string each checker's except branch appends
ErrorIssue ==
    [identity |-> <<"Verification error">>,
     authenticity |-> <<"Authenticity check error">>,
     validity |-> <<"Validity check error">>,
     completeness |-> <<"Completeness check error">>,
     fraud |-> <<"Fraud detection error">>]

\* C20: when any of the five checkers raises internally, it returns a result
\* with status=error, with one issue string appended to its issues list, and
\* with confidence 0, except verify_data_validity whose confidence on error
\* is the neutral 0.5.
C20_CheckerErrorPath ==
    \A k \in CheckNames :
        Get(results[k], "status", "") = "error" =>
            /\ "issues" \in DOMAIN results[k]
            /\ results[k].issues # << >>
            /\ results[k].issues[Len(results[k].issues)] = ErrorIssue[k]
            /\ results[k].confidence = IF k = "validity" THEN Pct(50) ELSE 0

\* C21: in verify_identity every mismatch appends an issue: for each of name,
\* student_id and department recorded in mismatches the issues list has a
\* string naming the two conflicting values, so the number of issues is at
\* least the number of mismatches.
C21_MismatchAppendsIssue ==
    pc = "returned" =>
        LET r == results["identity"]
        IN  /\ \A d \in r.mismatches :
                  \E n \in DOMAIN r.issues :
                      /\ Len(r.issues[n]) = 3
                      /\ r.issues[n][2] = d.document
                      /\ r.issues[n][3] = d.database
            /\ Len(r.issues) >= Cardinality(r.mismatches)

\* the dates of the validity call, classified as the claim words them
ValidityDates == Get(extracted.structured_data, "dates", << >>)

DateParses(d) == d.layout \in {"d/m/Y", "d-m-Y", "Y-m-d", "m/d/Y"}

DateRejected(d) == ~DateParses(d) \/ d.at > clock

DateVeryOld(d) == DateParses(d) /\ d.at < clock - 3650

\* the entries of a list of messages that are about the date d
AboutDate(messages, d) ==
    {n \in DOMAIN messages :
        /\ messages[n][1] \in {"Invalid date format", "Future date detected",
                               "Warning: Very old date"}
        /\ messages[n][2] = d}

\* C22: in verify_data_validity a date that matches none of the four formats,
\* or that lies in the future, adds an entry to issues and so prevents
\* status=valid; a date older than 10 years adds a warning only and does not
\* prevent status=valid.
C22_DateCheck ==
    (pc = "returned" /\ results["validity"].status # "error") =>
        LET r == results["validity"]
        IN  \A n \in DOMAIN ValidityDates :
               LET d == ValidityDates[n]
               IN  /\ DateRejected(d) =>
                        /\ AboutDate(r.issues, d) # {}
                        /\ r.status # "valid"
                   /\ DateVeryOld(d) =>
                        /\ AboutDate(r.warnings, d) # {}
                        /\ AboutDate(r.issues, d) = {}

\* the inputs of the authenticity call, as the claim names them
AuthImage == lower(args.file_extension) \in {ExtJpg, ExtJpeg, lower(ExtPng)}

StampDetected == AuthImage /\ args.file.stamp

SignatureDetected == AuthImage /\ args.file.signature

ImageQuality == IF AuthImage THEN args.file.quality ELSE 0

OcrConfidence == Get(extracted, "confidence", 0)

Indicator(b) == IF b THEN 1 ELSE 0

\* C23: verify_document_authenticity returns confidence = 0.3*[stamp
\* detected] + 0.2*[signature detected] + 0.2*imageQuality +
\* 0.3*ocrConfidence, status verified iff confidence >= 0.7, review_required
\* iff 0.4 <= confidence < 0.7 and suspicious iff confidence < 0.4; an image
\* quality below 0.3 and an OCR confidence below 0.5 each add exactly one
\* issue.
C23_AuthenticityConfidence ==
    (pc = "returned" /\ results["authenticity"].status # "error") =>
        LET r == results["authenticity"]
        IN  /\ 100 * r.confidence =
                    30 * Scale * Indicator(StampDetected)
                  + 20 * Scale * Indicator(SignatureDetected)
                  + 20 * ImageQuality
                  + 30 * OcrConfidence
            /\ r.status = "verified" <=> 10 * r.confidence >= 7 * Scale
            /\ r.status = "review_required"
                  <=> (10 * r.confidence >= 4 * Scale /\ 10 * r.confidence < 7 * Scale)
            /\ r.status = "suspicious" <=> 10 * r.confidence < 4 * Scale
            /\ Len(r.issues) =
                    Indicator(AuthImage /\ 10 * ImageQuality < 3 * Scale)
                  + Indicator(10 * OcrConfidence < 5 * Scale)

\* an image at exactly 0.7: stamp, signature, quality 1.0, no OCR confidence
C23_Witness ==
    /\ pc = "returned" /\ AuthImage
    /\ StampDetected /\ SignatureDetected
    /\ 10 * results["authenticity"].confidence = 7 * Scale
    /\ results["authenticity"].status = "verified"
    /\ Len(results["authenticity"].issues) = 1

\* an image at exactly 0.4 with both issues
C23_WitnessReview ==
    /\ pc = "returned" /\ AuthImage
    /\ 10 * results["authenticity"].confidence = 4 * Scale
    /\ results["authenticity"].status = "review_required"

\* a low-quality image with low OCR confidence: two issues, suspicious
C23_WitnessIssues ==
    /\ pc = "returned" /\ AuthImage
    /\ Len(results["authenticity"].issues) = 2
    /\ results["authenticity"].status = "suspicious"

\* 100 * (0.5*|red_flags| + 0.3*|anomalies| + 0.1*|warnings|) of a fraud result
ClaimedRisk100(r) == 50 * Len(r.red_flags) + 30 * Len(r.anomalies) + 10 * Len(r.warnings)

\* the score, level, status and confidence of a fraud result agree as stated
FraudResultAgrees(r) ==
    LET score100 == ClaimedRisk100(r)
    IN  /\ (r.risk_level = "high" /\ r.status = "requires_review") <=> score100 > 100
        /\ (r.risk_level = "medium" /\ r.status = "review_recommended")
              <=> (50 < score100 /\ score100 <= 100)
        /\ (r.risk_level = "low" /\ r.status = "passed") <=> score100 <= 50
        /\ <<r.risk_level, r.status>> \in
              {<<"high", "requires_review">>, <<"medium", "review_recommended">>,
               <<"low", "passed">>}
        /\ 200 * r.confidence = 200 * Scale - Min(score100, 200) * Scale

\* C24: ai_fraud_detection computes risk score = 0.5*|red_flags| +
\* 0.3*|anomalies| + 0.1*|warnings|, returns high / requires_review iff
\* score > 1.0, medium / review_recommended iff 0.5 < score <= 1.0 and
\* low / passed iff score <= 0.5, with confidence = 1 - min(score/2, 1); the
\* returned risk_level is always the one derived from the score, and status
\* and risk_level always correspond.
C24_RiskLevels ==
    pc = "returned" => FraudResultAgrees(results["fraud"])

\* C24 as amended: the same for every call that returns from the normal
\* path; the except branch returns status error with confidence 0 and the
\* risk_level the duplicate loop had left.
C24_RiskLevelsAmended ==
    /\ (pc = "returned" /\ results["fraud"].status # "error")
          => FraudResultAgrees(results["fraud"])
    /\ (pc = "returned" /\ results["fraud"].status = "error")
          => /\ results["fraud"].confidence = 0
             /\ results["fraud"].risk_level \in {"low", "high"}
             /\ results["fraud"].risk_level = "high" <=>
                   DuplicateFlag \in Range(results["fraud"].red_flags)

\* two duplicates in the history are a score of exactly 1.0: medium
C24_Witness ==
    /\ pc = "returned"
    /\ ClaimedRisk100(results["fraud"]) = 100
    /\ results["fraud"].risk_level = "medium"
    /\ results["fraud"].confidence = Scale \div 2

\* a score above 1.0
C24_WitnessHigh ==
    /\ pc = "returned"
    /\ ClaimedRisk100(results["fraud"]) > 100
    /\ results["fraud"].status = "requires_review"

\* a duplicate found before the history raised: error with risk_level high
C24_WitnessError ==
    /\ pc = "returned"
    /\ results["fraud"].status = "error"
    /\ results["fraud"].risk_level = "high"

\* the status the request had when the handler was called
StatusBefore == IF args.request = None THEN "none" ELSE args.request.status

\* C25: when verify_scholarship_request completes a run, the request status
\* becomes APPROVED iff the decision action is approve, REJECTED iff it is
\* reject, and UNDER_REVIEW for review and for error; a run that ends with an
\* error response (request not found, access denied, no documents) leaves
\* the request status unchanged.
C25_RunStateMachine ==
    /\ (pc = "responded" /\ response.status_code = 200) =>
          /\ request_status = "approved" <=> decision.action = "approve"
          /\ request_status = "rejected" <=> decision.action = "reject"
          /\ request_status = "under_review" <=> decision.action \in {"review", "error"}
          /\ response.status = request_status
    /\ (pc = "responded" /\ response.status_code # 200) =>
          request_status = StatusBefore
    /\ pc # "responded" => request_status = StatusBefore

\* a submitted request whose run is approved
C25_Witness ==
    /\ pc = "responded" /\ response.status_code = 200
    /\ StatusBefore = "submitted"
    /\ decision.action = "approve"
    /\ request_status = "approved"

\* a request under review whose run is rejected
C25_WitnessReject ==
    /\ pc = "responded" /\ response.status_code = 200
    /\ StatusBefore = "under_review"
    /\ request_status = "rejected"

\* a run that reaches review
C25_WitnessReview ==
    /\ pc = "responded" /\ response.status_code = 200
    /\ decision.action = "review"
    /\ request_status = "under_review"

\* runs refused with 404, 403 and 400 leave the status as it was
C25_WitnessRefused ==
    /\ pc = "responded" /\ response.status_code = 403
    /\ request_status = "submitted"

\* the number of problems a check recorded
ProblemsRecorded(k, r) ==
    IF k = "fraud"
    THEN Len(Get(r, "red_flags", << >>)) + Len(Get(r, "anomalies", << >>))
            + Len(Get(r, "warnings", << >>))
    ELSE Len(Get(r, "issues", << >>))

ApproveTemplate ==
    <<"Send approval notification to student", "Process scholarship disbursement",
      "Update request status to approved">>

RejectTemplate ==
    <<"Send rejection notification with reasons", "Allow resubmission with corrections",
      "Update request status to rejected">>

ReviewTemplate ==
    <<"Assign to admin reviewer", "Notify admin of review priority",
      "Highlight specific issues for manual check">>

\* C26: the report's overall_status is decision.action, its confidence_score
\* is decision.confidence, its summary has one entry per check with that
\* check's status, confidence and issues_count equal to the number of
\* problems the check recorded (for the fraud check its red flags, anomalies
\* and warnings), its next_actions is the approve template iff approve, the
\* reject template iff reject and the review template for review and error;
\* the check results passed in are not modified.
C26_Report ==
    (pc = "responded" /\ response.status_code = 200) =>
        LET report == response.report
        IN  /\ report.overall_status = decision.action
            /\ report.confidence_score = decision.confidence
            /\ DOMAIN report.summary = CheckNames
            /\ \A k \in CheckNames :
                  /\ report.summary[k].status = results[k].status
                  /\ report.summary[k].confidence = results[k].confidence
                  /\ report.summary[k].issues_count = ProblemsRecorded(k, results[k])
            /\ report.next_actions = ApproveTemplate <=> decision.action = "approve"
            /\ report.next_actions = RejectTemplate <=> decision.action = "reject"
            /\ report.next_actions = ReviewTemplate
                  <=> decision.action \in {"review", "error"}
            /\ report.details = results
            /\ response.verification_results = results

\* C27: for a PDF whose native text layer has length n, the result has
\* method=ocr_pdf if n < 100, and method=pdf_text_extraction with
\* confidence=0.95 for every n >= 100, including exactly 100.
C27_PdfTextPolicy ==
    (pc = "returned" /\ args.file_extension # NoneStr
       /\ lower(args.file_extension) = ExtPdf) =>
        /\ args.file.text_len < 100 => extracted.method = "ocr_pdf"
        /\ args.file.text_len >= 100 =>
              /\ extracted.method = "pdf_text_extraction"
              /\ 100 * extracted.confidence = 95 * Scale

\* 2 * overall_confidence of a stored document, from its two confidences
TwiceOverall(doc) ==
    LET file_extension == splitext_extension(doc.original_filename)
        extracted_data == extract_text_with_ocr(doc.content, file_extension)
    IN    verify_identity(extracted_data, service_request.request_data).confidence
        + verify_document_authenticity(doc.content, file_extension,
                                       extracted_data).confidence

\* C28: in the simple upload endpoint, after any sequence of successful
\* uploads for one request, the request's verification_score is the
\* arithmetic mean of the overall_confidence values ((identity confidence +
\* authenticity confidence) / 2) of all documents verified so far, whatever
\* the upload order, and a document is marked is_verified iff its
\* overall_confidence >= 0.7.
C28_ScoreIsMean ==
    documents # << >> =>
        /\ service_request.verification_score # << >>
        /\ 2 * Len(documents) * service_request.verification_score[1]
              = SeqSum([n \in DOMAIN documents |-> TwiceOverall(documents[n])])
        /\ \A n \in DOMAIN documents :
              documents[n].is_verified
                 <=> 10 * TwiceOverall(documents[n]) >= 2 * 7 * Scale

\* C29: in the standalone module verify_application never sets an
\* application's status to auto_approved: every uploaded document's
\* data-validity result, computed against empty requirements, has confidence
\* at most 0.5, so overall_confidence = (identity + authenticity + data) / 3
\* stays below the 0.85 approval threshold for every sequence of uploads;
\* the automated outcomes are manual_review and auto_rejected only.
C29_NeverAutoApproved ==
    \A application_id \in DOMAIN applications_db :
        LET application == applications_db[application_id]
        IN  /\ application.status # "auto_approved"
            /\ \A n \in DOMAIN application.documents :
                  application.documents[n].verification.data_validity.confidence
                     <= Pct(50)
            /\ application.verification_results # None =>
                  /\ application.verification_results.overall_confidence
                        < Pct(AutoApproved)
                  /\ application.verification_results.decision
                        \in {"manual_review", "auto_rejected"}

C29_Witness ==
    \E application_id \in DOMAIN applications_db :
        LET application == applications_db[application_id]
        IN  /\ application.status = "manual_review"
            /\ application.verification_results # None
            /\ application.verification_results.data_validity_score
                  = Pct(50)
            /\ application.verification_results.identity_score = Scale

C29_WitnessRejected ==
    \E application_id \in DOMAIN applications_db :
        /\ applications_db[application_id].status = "auto_rejected"
        /\ args.op = "verify_application"

\* C30: decision field consistency.  In every decision auto_decision
\* returns, requires_manual_review is false iff action = approve,
\* review_priority is normal iff action = approve, review_priority is urgent
\* iff action = error, action = reject implies review_priority = high, and
\* action is never pending.
C30_FieldConsistency ==
    pc = "decided" =>
        /\ decision.requires_manual_review = FALSE <=> decision.action = "approve"
        /\ decision.review_priority = "normal" <=> decision.action = "approve"
        /\ decision.review_priority = "urgent" <=> decision.action = "error"
        /\ decision.action = "reject" => decision.review_priority = "high"
        /\ decision.action # "pending"
        /\ decision.action \in {"approve", "review", "reject", "error"}

C30_Witness ==
    /\ pc = "decided"
    /\ decision.action = "approve"
    /\ decision.requires_manual_review = FALSE
    /\ decision.review_priority = "normal"

C30_WitnessReject ==
    /\ pc = "decided"
    /\ decision.action = "reject"
    /\ decision.review_priority = "high"

C30_WitnessReview ==
    /\ pc = "decided"
    /\ decision.action = "review"
    /\ decision.review_priority = "medium"

C30_WitnessError ==
    /\ pc = "decided"
    /\ decision.action = "error"
    /\ decision.review_priority = "urgent"

====
